---------------------------- MODULE Spec2Model ----------------------------
(***************************************************************************)
(* Model of the reliability-wrapped persistence layer of dexter-workspace: *)
(*   helpers/db_helper.py    get_connection, log_action                    *)
(*   helpers/reliability.py  require_verification, ActionVerifier,         *)
(*                           retry_with_backoff, RateLimiter, rate_limit   *)
(*   helpers/utils.py        cleanup_old_actions                           *)
(* helpers/action_verifier.py holds a second copy of ActionVerifier and    *)
(* require_verification with the same statements; the model covers both.   *)
(*                                                                         *)
(* Each component has its own specification over the common state:         *)
(* SpecConn, SpecVerify, SpecRetry, SpecRate.  Spec interleaves them all.  *)
(***************************************************************************)
EXTENDS Integers, Sequences, FiniteSets, TLC

(***************************************************************************)
(* Bounds of the model.                                                    *)
(***************************************************************************)
MaxRetryCount == 3
MaxScopes == 2
MaxStmts == 3
MaxCalls == 2
MaxCheckpoints == 1
MaxRetries == 2
MaxDelay == 2
MaxFactor == 3
MaxLimit == 2
MaxWindow == 2
MaxTime == 3
MaxChecks == 4
MaxConcCalls == 3
MaxRows == 2
MaxSnapshots == 2
MaxRollbacks == 2
MaxRecoverRetries == 2
MaxRecoverSnapshots == 1
MaxCreates == 3
MaxSets == 3
TicksPerDay == 2
MaxTtl == 1
MaxRules == 2
MaxExpirySets == 2
MaxObjects == 2
MaxPatterns == 1
MaxUpdates == 3
MaxDecisions == 1
MaxKnowledge == 1

(***************************************************************************)
(* Exceptions.  An exception value has a class, a message (what str(e)     *)
(* yields) and a tag `at' that tells two raises of the same class apart.   *)
(***************************************************************************)
NoError == [cls |-> "none", msg |-> "", at |-> 0]

Raise(cls, msg, at) == [cls |-> cls, msg |-> msg, at |-> at]

\* `except sqlite3.Error' matches exactly the sqlite3 classes.
IsSqliteError(e) == e.cls = "sqlite3.Error"

\* `except Exception' matches every class but the BaseException-only ones.
IsException(e) == e.cls \notin {"none", "KeyboardInterrupt"}

\* str(e): the message text of the exception, empty when raised without one.
Str(e) == e.msg

(***************************************************************************)
(* State.                                                                  *)
(*   store, handles, scope, scopes_done    the store and one caller of     *)
(*                                         get_connection                  *)
(*   action_log, next_action_id, history,  the Action Log, the checkpoints *)
(*   checkpoints, call, calls_made         and the wrapped calls           *)
(*   retry                                 one call of retry_with_backoff  *)
(*   limiter, clock, checks                a RateLimiter, time.time() and  *)
(*                                         the calls made through it       *)
(*   thread, admitted, begun               threads inside check_limit on   *)
(*                                         one key of the same RateLimiter *)
(*   rollback                              the last call of                *)
(*                                         rollback_action                 *)
(*   recover                               one call of recover_from_error  *)
(*   safety                                one call through                *)
(*                                         require_safety_check            *)
(*   workspaces, write_lock, creator,      the workspaces table, the       *)
(*   creates                               store's write lock and the      *)
(*                                         callers of create_workspace     *)
(*   preferences, context, agent_state,    the key-value tables, the value *)
(*   latest, last_set, sets                last set per key and the last   *)
(*                                         call of a setter                *)
(*   rules, cleanup                        the rules table and the last    *)
(*                                         pass of the cleanup of expired  *)
(*                                         contexts                        *)
(*   session, writer                       concurrent scopes of            *)
(*                                         get_connection and the holder   *)
(*                                         of the store's write lock       *)
(*   disk, init                            the store at db_path and one    *)
(*                                         call of init_database           *)
(*   patterns, tally, updater, updates     the patterns, the outcomes      *)
(*                                         reported for each and the       *)
(*                                         callers of                      *)
(*                                         update_pattern_success          *)
(*   decisions, knowledge, learn           the rows of agent_decisions and *)
(*                                         agent_knowledge, and the last   *)
(*                                         call of learn_from_decision     *)
(***************************************************************************)
VARIABLES store, handles, scope, scopes_done,
          action_log, next_action_id, history, checkpoints, call, calls_made,
          retry,
          limiter, clock, checks,
          thread, admitted, begun,
          rollback,
          recover,
          safety,
          workspaces, write_lock, creator, creates,
          preferences, context, agent_state, latest, last_set, sets,
          rules, cleanup,
          session, writer,
          disk, init,
          patterns, tally, updater, updates,
          decisions, knowledge, learn

connVars == <<store, handles, scope, scopes_done>>

verifyVars == <<action_log, next_action_id, history, checkpoints, call,
                calls_made>>

retryVars == <<retry>>

rateVars == <<limiter, clock, checks>>

concVars == <<thread, admitted, begun>>

rollbackVars == <<rollback>>

recoverVars == <<recover>>

safetyVars == <<safety>>

wsVars == <<workspaces, write_lock, creator, creates>>

kvVars == <<preferences, context, agent_state, latest, last_set, sets>>

expVars == <<rules, cleanup>>

lockVars == <<session, writer>>

initVars == <<disk, init>>

patternVars == <<patterns, tally, updater, updates>>

decisionVars == <<decisions, knowledge, learn>>

vars == <<connVars, verifyVars, retryVars, rateVars, concVars,
          rollbackVars, recoverVars, safetyVars, wsVars, kvVars,
          expVars, lockVars, initVars, patternVars, decisionVars>>

\* What the steps of one component leave alone: the state of the others.
notConn ==
    <<verifyVars, retryVars, rateVars, concVars, rollbackVars,
      recoverVars, safetyVars, wsVars, kvVars, expVars, lockVars, initVars, patternVars, decisionVars>>

notVerify ==
    <<connVars, retryVars, rateVars, concVars, rollbackVars,
      recoverVars, safetyVars, wsVars, kvVars, expVars, lockVars, initVars, patternVars, decisionVars>>

notRetry ==
    <<connVars, verifyVars, rateVars, concVars, rollbackVars,
      recoverVars, safetyVars, wsVars, kvVars, expVars, lockVars, initVars, patternVars, decisionVars>>

notRate ==
    <<connVars, verifyVars, retryVars, concVars, rollbackVars,
      recoverVars, safetyVars, wsVars, kvVars, expVars, lockVars, initVars, patternVars, decisionVars>>

notConc ==
    <<connVars, verifyVars, retryVars, checks, rollbackVars,
      recoverVars, safetyVars, wsVars, kvVars, expVars, lockVars, initVars, patternVars, decisionVars>>

notRollback ==
    <<connVars, retryVars, rateVars, concVars, recoverVars,
      safetyVars, wsVars, kvVars, expVars, lockVars, initVars, patternVars, decisionVars>>

notWs ==
    <<connVars, verifyVars, retryVars, rateVars, concVars,
      rollbackVars, recoverVars, safetyVars, kvVars, expVars, lockVars, initVars, patternVars, decisionVars>>

notKv ==
    <<connVars, verifyVars, retryVars, rateVars, concVars,
      rollbackVars, recoverVars, safetyVars, wsVars, expVars, lockVars, initVars, patternVars, decisionVars>>

notSafety ==
    <<connVars, verifyVars, retryVars, rateVars, concVars,
      rollbackVars, recoverVars, wsVars, kvVars, expVars, lockVars, initVars, patternVars, decisionVars>>

notRecover ==
    <<connVars, retryVars, rateVars, concVars, rollbackVars,
      safetyVars, wsVars, kvVars, expVars, lockVars, initVars, patternVars, decisionVars>>

notExp ==
    <<connVars, verifyVars, retryVars, rateVars, concVars,
      rollbackVars, recoverVars, safetyVars, wsVars, lockVars, initVars, patternVars, decisionVars>>

notLock ==
    <<connVars, verifyVars, retryVars, rateVars, concVars,
      rollbackVars, recoverVars, safetyVars, wsVars, kvVars, expVars, initVars, patternVars, decisionVars>>

notInit ==
    <<connVars, verifyVars, retryVars, rateVars, concVars,
      rollbackVars, recoverVars, safetyVars, wsVars, kvVars, expVars, lockVars, patternVars, decisionVars>>

notPattern ==
    <<connVars, verifyVars, retryVars, rateVars, concVars,
      rollbackVars, recoverVars, safetyVars, wsVars, kvVars, expVars, lockVars, initVars, decisionVars>>

notDecision ==
    <<connVars, verifyVars, retryVars, rateVars, concVars,
      rollbackVars, recoverVars, safetyVars, wsVars, kvVars,
      expVars, lockVars, initVars, patternVars>>

(***************************************************************************)
(* Connection Manager: get_connection                                      *)
(***************************************************************************)

\* The `conn = None' of line 34.
None == 0

Stmts == 1..MaxStmts

\* Errors the body of a `with get_connection()' block can let escape.
BodyErrors ==
    { Raise("sqlite3.Error", "no such table", 10),
      Raise("ValueError", "boom", 11),
      Raise("KeyboardInterrupt", "", 12) }

\* None.commit() / None.execute()
AttributeError == Raise("AttributeError", "'NoneType' object has no attribute", 13)

\* conn.commit() refused by the store (disk full, database is locked)
CommitError == Raise("sqlite3.Error", "database is locked", 14)

IdleScope ==
    [ pc |-> "idle", retry_count |-> 0, attempt |-> 0, conn |-> None,
      last_error |-> NoError, sleeps |-> <<>>, results |-> <<>>,
      entered |-> FALSE, pre |-> {}, pending |-> {}, executed |-> {},
      body_error |-> NoError, commit |-> "none", raised |-> NoError ]

\* sqlite: COMMIT makes the statements of the open transaction visible.
Commit(st, pend) == st \cup pend

\* sqlite: ROLLBACK drops the statements of the open transaction.
Rollback(st, pend) == st

\* sqlite: closing a handle drops its open transaction (no implicit commit).
Close(st, pend) == st

\* A plausible slip: the commit placed in the `finally' clause, so that it
\* also runs when an error escapes the body.
ScopeExitCommitInFinally(conn, st, pend, err, commit_ok) ==
    IF conn = None
    THEN [ store |-> st, raised |-> IF err = NoError THEN AttributeError ELSE err,
           closed |-> FALSE ]
    ELSE IF commit_ok
    THEN [ store |-> Commit(st, pend), raised |-> err, closed |-> TRUE ]
    ELSE [ store |-> Rollback(st, pend),
           raised |-> IF err = NoError THEN CommitError ELSE err, closed |-> TRUE ]

\* Lines 57-67: what leaving the scope does to the store, which error leaves
\* get_connection and whether conn.close() ran.  err is the error that
\* escaped the body (NoError when the body finished), commit_ok whether the
\* store accepts conn.commit().
ScopeExit(conn, st, pend, err, commit_ok) ==
    IF err = NoError
    THEN IF conn = None
         THEN \* line 59: None.commit() raises AttributeError, not caught
              [ store |-> st, raised |-> AttributeError, closed |-> FALSE ]
         ELSE IF commit_ok
         THEN [ store |-> Close(Commit(st, pend), {}), raised |-> NoError, closed |-> TRUE ]
         ELSE \* the commit raised sqlite3.Error: lines 60-64
              [ store |-> Close(Rollback(st, pend), {}), raised |-> CommitError,
                closed |-> TRUE ]
    ELSE IF IsSqliteError(err)
    THEN [ store |-> IF conn # None THEN Close(Rollback(st, pend), {}) ELSE st,
           raised |-> err, closed |-> conn # None ]
    ELSE \* not caught by line 60: only the finally clause runs
         [ store |-> IF conn # None THEN Close(st, pend) ELSE st,
           raised |-> err, closed |-> conn # None ]

\* Lines 34-37: the call; the loop is about to make its first attempt.
GetConnection(rc) ==
    /\ scope.pc = "idle"
    /\ scopes_done < MaxScopes
    /\ scope' = [IdleScope EXCEPT !.pc = "connect", !.retry_count = rc]
    /\ UNCHANGED <<store, handles, scopes_done>>
    /\ UNCHANGED notConn

\* Lines 37-55: one iteration of the retry loop.  out = "connect" when
\* sqlite3.connect raises, "pragma" when a PRAGMA on the opened handle
\* raises, "ok" when the iteration reaches the break.
ConnectAttempt(out) ==
    /\ scope.pc = "connect"
    /\ scope.attempt < scope.retry_count
    /\ LET opened == out # "connect"
           h == Len(handles) + 1
           e == Raise("sqlite3.Error", out, scope.attempt + 1)
           s1 == [scope EXCEPT !.conn = IF opened THEN h ELSE @,
                               !.results = Append(@, out)]
       IN  /\ handles' = IF opened THEN Append(handles, "open") ELSE handles
           /\ scope' =
                IF out = "ok"
                THEN [s1 EXCEPT !.pc = "body", !.entered = TRUE, !.pre = store]
                ELSE IF scope.attempt < scope.retry_count - 1
                THEN [s1 EXCEPT !.last_error = e,
                                !.sleeps = Append(@, scope.attempt + 1),
                                !.attempt = @ + 1]
                ELSE [s1 EXCEPT !.last_error = e, !.pc = "raised", !.raised = e]
    /\ UNCHANGED <<store, scopes_done>>
    /\ UNCHANGED notConn

\* Lines 37, 57-58: the loop ends without an iteration (retry_count <= 0)
\* and conn, still None, is yielded.
LoopExhausted ==
    /\ scope.pc = "connect"
    /\ scope.attempt >= scope.retry_count
    /\ scope' = [scope EXCEPT !.pc = "body", !.entered = TRUE, !.pre = store]
    /\ UNCHANGED <<store, handles, scopes_done>>
    /\ UNCHANGED notConn

\* The body runs conn.execute(INSERT ...): the statement joins the open
\* transaction of the handle.
Execute(s) ==
    /\ scope.pc = "body"
    /\ scope.conn # None
    /\ s \notin store \cup scope.executed
    /\ scope' = [scope EXCEPT !.pending = @ \cup {s}, !.executed = @ \cup {s}]
    /\ UNCHANGED <<store, handles, scopes_done>>
    /\ UNCHANGED notConn

LeaveScope(err, commit_ok) ==
    LET x == ScopeExit(scope.conn, store, scope.pending, err, commit_ok)
    IN  /\ store' = x.store
        /\ handles' = IF x.closed THEN [handles EXCEPT ![scope.conn] = "closed"]
                      ELSE handles
        /\ scope' = [scope EXCEPT
                        !.pc = IF x.raised = NoError THEN "returned" ELSE "raised",
                        !.body_error = err,
                        !.commit = IF err = NoError /\ scope.conn # None
                                   THEN IF commit_ok THEN "ok" ELSE "refused"
                                   ELSE "none",
                        !.pending = {},
                        !.raised = x.raised]
        /\ UNCHANGED scopes_done

\* Lines 58-59, 65-67: the body finishes; commit, then close.
BodyReturns(commit_ok) ==
    /\ scope.pc = "body"
    /\ LeaveScope(NoError, commit_ok)
    /\ UNCHANGED notConn

\* Lines 60-67: an error escapes the body.
BodyRaises(e) ==
    /\ scope.pc = "body"
    /\ LeaveScope(e, TRUE)
    /\ UNCHANGED notConn

\* The caller has left the with statement (or caught the error).
ScopeDone ==
    /\ scope.pc \in {"returned", "raised"}
    /\ scope' = IdleScope
    /\ scopes_done' = scopes_done + 1
    /\ UNCHANGED <<store, handles>>
    /\ UNCHANGED notConn

InitConn ==
    /\ store = {}
    /\ handles = <<>>
    /\ scope = IdleScope
    /\ scopes_done = 0

NextConn ==
    \/ \E rc \in 0..MaxRetryCount : GetConnection(rc)
    \/ \E out \in {"ok", "connect", "pragma"} : ConnectAttempt(out)
    \/ LoopExhausted
    \/ \E s \in Stmts : Execute(s)
    \/ \E ok \in BOOLEAN : BodyReturns(ok)
    \/ \E e \in BodyErrors \cup {AttributeError} : BodyRaises(e)
    \/ ScopeDone

(***************************************************************************)
(* Action Verification: require_verification, ActionVerifier, cleanup      *)
(***************************************************************************)
Callers == {1, 2}

\* Values the wrapped operation can return.
Results == {"r1"}

\* Errors the wrapped operation can raise: with a message and without one
\* (raise ValueError()).
OpErrors ==
    { Raise("ValueError", "boom", 21),
      Raise("ValueError", "", 22) }

\* The error of a get_connection scope that the store refuses, raised at
\* step `at' of the wrapper.
StoreError(at) == Raise("sqlite3.Error", "database is locked", at)

IdleCall ==
    [ pc |-> "idle", action_id |-> 0, rows |-> {}, trace |-> <<>>,
      result |-> "None", op_error |-> NoError, exc |-> NoError,
      verified |-> FALSE, fail_write |-> "none",
      returned |-> "None", raised |-> NoError, business_error |-> NoError ]

\* UPDATE action_log SET status = ? WHERE id = ?  (no row: nothing changes)
UpdateStatus(log, id, status) ==
    IF id \in DOMAIN log THEN [log EXCEPT ![id].status = status] ELSE log

\* The ghost record of the statuses the row of a call in flight has had, one
\* entry per change.
Record(h, log, id, status) ==
    IF id \in DOMAIN h /\ id \in DOMAIN log /\ log[id].status # status
    THEN [h EXCEPT ![id] = Append(@, status)]
    ELSE h

\* db_helper.log_action: INSERT one row, return cursor.lastrowid.
LogAction(log, id, status) ==
    [i \in DOMAIN log \cup {id} |->
        IF i = id
        THEN [status |-> status, description |-> "NULL", rollback_info |-> "NULL"]
        ELSE log[i]]

\* Lines 510-521: the wrapper starts and log_action writes the pending row.
\* log_action runs before the try: a refused write leaves the wrapper.
\* Callers are interchangeable: a new call takes the first idle one.
LogPending(c, ok) ==
    /\ call[c].pc = "idle"
    /\ \A d \in Callers : d < c => call[d].pc # "idle"
    /\ calls_made < MaxCalls
    /\ calls_made' = calls_made + 1
    /\ IF ok
       THEN /\ action_log' = LogAction(action_log, next_action_id, "pending")
            /\ history' = [i \in DOMAIN history \cup {next_action_id} |->
                              IF i = next_action_id THEN <<"pending">> ELSE history[i]]
            /\ next_action_id' = next_action_id + 1
            /\ call' = [call EXCEPT ![c] =
                          [IdleCall EXCEPT !.pc = "logged",
                                           !.action_id = next_action_id,
                                           !.rows = {next_action_id},
                                           !.trace = <<"pending">>]]
       ELSE /\ call' = [call EXCEPT ![c] =
                          [IdleCall EXCEPT !.pc = "raised", !.raised = StoreError(1)]]
            /\ UNCHANGED <<action_log, history, next_action_id>>
    /\ UNCHANGED checkpoints
    /\ UNCHANGED notVerify

\* A plausible slip: the in_progress update is left out.
MarkInProgressOmitted(c, ok) ==
    /\ call[c].pc = "logged"
    /\ call' = [call EXCEPT ![c].pc = "ready"]
    /\ UNCHANGED <<action_log, history, next_action_id, checkpoints,
                   calls_made>>
    /\ UNCHANGED notVerify

\* Lines 523-529: the row becomes in_progress.
MarkInProgress(c, ok) ==
    /\ call[c].pc = "logged"
    /\ IF ok
       THEN /\ action_log' = UpdateStatus(action_log, call[c].action_id, "in_progress")
            /\ history' = Record(history, action_log, call[c].action_id, "in_progress")
            /\ call' = [call EXCEPT ![c].pc = "ready",
                                    ![c].trace = Append(@, "in_progress")]
       ELSE /\ call' = [call EXCEPT ![c].pc = "handling", ![c].exc = StoreError(2)]
            /\ UNCHANGED <<action_log, history>>
    /\ UNCHANGED <<next_action_id, checkpoints, calls_made>>
    /\ UNCHANGED notVerify

\* Line 532: result = func(*args, **kwargs), the operation returns r.
OpReturns(c, r) ==
    /\ call[c].pc = "ready"
    /\ call' = [call EXCEPT ![c].pc = "verify", ![c].result = r,
                            ![c].trace = Append(@, "invoke")]
    /\ UNCHANGED <<action_log, history, next_action_id, checkpoints,
                   calls_made>>
    /\ UNCHANGED notVerify

\* Lines 532, 546: the operation raises e; `except Exception' catches it
\* unless e is a BaseException outside Exception, which leaves the wrapper.
OpRaises(c, e) ==
    /\ call[c].pc = "ready"
    /\ call' = [call EXCEPT
                  ![c].trace = Append(@, "invoke"),
                  ![c].op_error = e,
                  ![c].pc = IF IsException(e) THEN "handling" ELSE "raised",
                  ![c].exc = IF IsException(e) THEN e ELSE @,
                  ![c].raised = IF IsException(e) THEN @ ELSE e]
    /\ UNCHANGED <<action_log, history, next_action_id, checkpoints,
                   calls_made>>
    /\ UNCHANGED notVerify

\* ActionVerifier.verify_action_completion (lines 426-459): true only for a
\* row whose status is completed.
VerifyActionCompletion(log, id) ==
    id \in DOMAIN log /\ log[id].status = "completed"

\* Line 535: the result of the verification is not used.
VerifyCompletion(c, ok) ==
    /\ call[c].pc = "verify"
    /\ call' = IF ok
               THEN [call EXCEPT ![c].pc = "complete",
                                 ![c].verified =
                                    VerifyActionCompletion(action_log, call[c].action_id)]
               ELSE [call EXCEPT ![c].pc = "handling", ![c].exc = StoreError(3)]
    /\ UNCHANGED <<action_log, history, next_action_id, checkpoints,
                   calls_made>>
    /\ UNCHANGED notVerify

\* Line 544: return result
WrapperResult(result) == result

\* Lines 537-544: the row becomes completed and the result is returned.
MarkCompleted(c, ok) ==
    /\ call[c].pc = "complete"
    /\ IF ok
       THEN /\ action_log' = UpdateStatus(action_log, call[c].action_id, "completed")
            /\ history' = Record(history, action_log, call[c].action_id, "completed")
            /\ call' = [call EXCEPT ![c].pc = "returned",
                                    ![c].trace = Append(@, "completed"),
                                    ![c].returned = WrapperResult(call[c].result)]
       ELSE /\ call' = [call EXCEPT ![c].pc = "handling", ![c].exc = StoreError(4)]
            /\ UNCHANGED <<action_log, history>>
    /\ UNCHANGED <<next_action_id, checkpoints, calls_made>>
    /\ UNCHANGED notVerify

\* UPDATE action_log SET status = 'failed', description = ? WHERE id = ?
UpdateFailed(log, id, text) ==
    IF id \in DOMAIN log
    THEN [log EXCEPT ![id].status = "failed", ![id].description = text]
    ELSE log

\* Lines 546-559: the handler writes failed with str(e) and re-raises; when
\* the store refuses that write, its error leaves the handler instead.
MarkFailed(c, ok) ==
    /\ call[c].pc = "handling"
    /\ IF ok
       THEN /\ action_log' = UpdateFailed(action_log, call[c].action_id, Str(call[c].exc))
            /\ history' = Record(history, action_log, call[c].action_id, "failed")
            /\ call' = [call EXCEPT ![c].pc = "raised",
                                    ![c].trace = Append(@, "failed"),
                                    ![c].fail_write = "ok",
                                    ![c].raised = call[c].exc]
       ELSE /\ call' = [call EXCEPT ![c].pc = "raised",
                                    ![c].fail_write = "refused",
                                    ![c].raised = StoreError(5)]
            /\ UNCHANGED <<action_log, history>>
    /\ UNCHANGED <<next_action_id, checkpoints, calls_made>>
    /\ UNCHANGED notVerify

\* The caller has received the result or the error.
CallDone(c) ==
    /\ call[c].pc \in {"returned", "raised"}
    /\ call' = [call EXCEPT ![c] = IdleCall]
    /\ history' = [i \in DOMAIN history \ call[c].rows |-> history[i]]
    /\ UNCHANGED <<action_log, next_action_id, checkpoints, calls_made>>
    /\ UNCHANGED notVerify

\* ActionVerifier.create_checkpoint (lines 383-405) for an existing action;
\* the new checkpoint gets the next id, its place in checkpoints.  max bounds
\* the number of checkpoints.
CreateCheckpoint(id, max) ==
    /\ id \in DOMAIN action_log
    /\ Len(checkpoints) < max
    /\ checkpoints' = Append(checkpoints, id)
    /\ UNCHANGED <<action_log, history, next_action_id, call, calls_made>>
    /\ UNCHANGED notVerify

HasCheckpoint(id) == \E k \in 1..Len(checkpoints) : checkpoints[k] = id

\* A plausible slip: ORDER BY id ASC, the oldest checkpoint of the action.
SelectCheckpointOldest(cps, id) ==
    LET own == { k \in 1..Len(cps) : cps[k] = id }
    IN  IF own = {} THEN 0 ELSE CHOOSE k \in own : \A j \in own : j >= k

\* Lines 475-479: SELECT ... WHERE action_id = ? ORDER BY id DESC LIMIT 1,
\* the id of the checkpoint fetched, 0 when there is no row.
SelectCheckpoint(cps, id) ==
    LET own == { k \in 1..Len(cps) : cps[k] = id }
    IN  IF own = {} THEN 0 ELSE CHOOSE k \in own : \A j \in own : j <= k

\* Lines 486-493: UPDATE action_log SET status = 'cancelled',
\* rollback_info = ? WHERE id = ?  (no row: nothing changes)
UpdateCancelled(log, id, info) ==
    IF id \in DOMAIN log
    THEN [log EXCEPT ![id].status = "cancelled", ![id].rollback_info = info]
    ELSE log

\* ActionVerifier.rollback_action (lines 461-496): the Action Log after the
\* call, what the call returned, the checkpoint it fetched and the error it
\* raised.  With no checkpoint it returns False.  Otherwise the row becomes
\* cancelled, whatever its status, unless the store refuses the write
\* (ok = FALSE): get_connection then rolls back and the error leaves.
RollbackResult(log, cps, id, info, ok) ==
    LET sel == SelectCheckpoint(cps, id)
    IN  IF sel = 0
        THEN [ log |-> log, ret |-> "False", selected |-> 0, raised |-> NoError ]
        ELSE IF ok
        THEN [ log |-> UpdateCancelled(log, id, info), ret |-> "True",
               selected |-> sel, raised |-> NoError ]
        ELSE [ log |-> log, ret |-> "none", selected |-> sel,
               raised |-> StoreError(30) ]

\* rollback_action called beside the wrapped calls; what it returns is not
\* looked at here.
RollbackAction(id, info) ==
    /\ id \in 1..(next_action_id - 1)
    /\ action_log' = RollbackResult(action_log, checkpoints, id, info, TRUE).log
    /\ history' = IF HasCheckpoint(id)
                  THEN Record(history, action_log, id, "cancelled")
                  ELSE history
    /\ UNCHANGED <<next_action_id, checkpoints, call, calls_made>>
    /\ UNCHANGED notVerify

\* utils.cleanup_old_actions (lines 186-195): DELETE the completed rows that
\* are older than the given number of days; old is the set of rows that old.
CleanupOldActions(old) ==
    /\ old # {}
    /\ \A id \in old : action_log[id].status = "completed"
    /\ action_log' = [i \in DOMAIN action_log \ old |-> action_log[i]]
    /\ UNCHANGED <<history, next_action_id, checkpoints, call, calls_made>>
    /\ UNCHANGED notVerify

InitVerify ==
    /\ action_log = << >>
    /\ next_action_id = 1
    /\ history = << >>
    /\ checkpoints = << >>
    /\ call = [c \in Callers |-> IdleCall]
    /\ calls_made = 0

NextVerify ==
    \/ \E c \in Callers, ok \in BOOLEAN : LogPending(c, ok)
    \/ \E c \in Callers, ok \in BOOLEAN : MarkInProgress(c, ok)
    \/ \E c \in Callers, ok \in BOOLEAN : VerifyCompletion(c, ok)
    \/ \E c \in Callers, ok \in BOOLEAN : MarkCompleted(c, ok)
    \/ \E c \in Callers, ok \in BOOLEAN : MarkFailed(c, ok)
    \/ \E c \in Callers, r \in Results : OpReturns(c, r)
    \/ \E c \in Callers, e \in OpErrors : OpRaises(c, e)
    \/ \E c \in Callers : CallDone(c)
    \/ \E id \in DOMAIN action_log : CreateCheckpoint(id, MaxCheckpoints)
    \/ \E id \in 1..(next_action_id - 1) : RollbackAction(id, "info")
    \/ \E old \in SUBSET (DOMAIN action_log) : CleanupOldActions(old)


(***************************************************************************)
(* The decorator stack of the call sites (reliability_examples.py lines    *)
(* 45-63): require_verification around recover_from_error around the       *)
(* business logic.  What require_verification invokes at line 532 is the   *)
(* wrapper of recover_from_error: it returns what the business logic       *)
(* returns (OpReturns), raises what the business logic finally raises      *)
(* under the strategies retry, rollback and fail (OpRaises), and under     *)
(* the strategy skip returns None when the business logic raises           *)
(* (OpSkipped).                                                            *)
(***************************************************************************)
\* reliability.py lines 571, 573: validate_workspace_id in the body of
\* safe_delete_workspace rejects the id.
ValidationError == Raise("ValidationError", "Invalid workspace_id: must be positive", 23)

\* What the business logic raises: the ValidationError of an invalid id and
\* the ValueError of line 55.
StackErrors ==
    { ValidationError, Raise("ValueError", "Deletion requires confirm=True", 24) }

\* recover_from_error lines 300-302 inside require_verification line 532:
\* the business logic raises e, the inner wrapper returns None.
OpSkipped(c, e) ==
    /\ call[c].pc = "ready"
    /\ IsException(e)
    /\ call' = [call EXCEPT ![c].pc = "verify", ![c].result = "None",
                            ![c].business_error = e,
                            ![c].trace = Append(@, "invoke")]
    /\ UNCHANGED <<action_log, history, next_action_id, checkpoints,
                   calls_made>>
    /\ UNCHANGED notVerify

NextStack ==
    \/ \E c \in Callers, ok \in BOOLEAN : LogPending(c, ok)
    \/ \E c \in Callers, ok \in BOOLEAN : MarkInProgress(c, ok)
    \/ \E c \in Callers, ok \in BOOLEAN : VerifyCompletion(c, ok)
    \/ \E c \in Callers, ok \in BOOLEAN : MarkCompleted(c, ok)
    \/ \E c \in Callers, ok \in BOOLEAN : MarkFailed(c, ok)
    \/ \E c \in Callers, r \in Results : OpReturns(c, r)
    \/ \E c \in Callers, e \in StackErrors : OpRaises(c, e)
    \/ \E c \in Callers, e \in StackErrors : OpSkipped(c, e)
    \/ \E c \in Callers : CallDone(c)


\* An error outside Exception that the wrapped operation can end with:
\* KeyboardInterrupt, as SystemExit of sys.exit().
KeyboardInterrupt == Raise("KeyboardInterrupt", "", 25)

\* require_verification around an operation that returns, raises an
\* Exception or ends with a BaseException, on a store that accepts every
\* write of the wrapper.
NextInterrupt ==
    \/ \E c \in Callers : LogPending(c, TRUE)
    \/ \E c \in Callers : MarkInProgress(c, TRUE)
    \/ \E c \in Callers : VerifyCompletion(c, TRUE)
    \/ \E c \in Callers : MarkCompleted(c, TRUE)
    \/ \E c \in Callers : MarkFailed(c, TRUE)
    \/ \E c \in Callers, r \in Results : OpReturns(c, r)
    \/ \E c \in Callers, e \in OpErrors \cup {KeyboardInterrupt} : OpRaises(c, e)
    \/ \E c \in Callers : CallDone(c)


(***************************************************************************)
(* ActionVerifier.rollback_action called on its own, on an Action Log      *)
(* whose rows were written by log_action and whose actions have            *)
(* checkpoints.  rollback keeps the last call: its arguments, what it      *)
(* returned or raised, the checkpoint it fetched, and the tables before    *)
(* and after it.                                                           *)
(***************************************************************************)
Statuses == {"pending", "in_progress", "completed", "failed"}

RollbackInfos == {"undo a", "undo b"}

NoRollback ==
    [ id |-> 0, info |-> "NULL", ret |-> "none", selected |-> 0,
      raised |-> NoError, log_before |-> << >>, log_after |-> << >>,
      cps_before |-> << >>, cps_after |-> << >>, calls |-> 0 ]

\* db_helper.log_action called directly with the given status.
LogActionCall(status) ==
    /\ next_action_id <= MaxRows
    /\ action_log' = LogAction(action_log, next_action_id, status)
    /\ next_action_id' = next_action_id + 1
    /\ UNCHANGED <<history, checkpoints, call, calls_made, rollback>>
    /\ UNCHANGED notRollback

\* One call of rollback_action(id, info).
RollbackCall(id, info, ok) ==
    /\ rollback.calls < MaxRollbacks
    /\ LET x == RollbackResult(action_log, checkpoints, id, info, ok)
       IN  /\ action_log' = x.log
           /\ rollback' = [ id |-> id, info |-> info, ret |-> x.ret,
                            selected |-> x.selected, raised |-> x.raised,
                            log_before |-> action_log, log_after |-> x.log,
                            cps_before |-> checkpoints,
                            cps_after |-> checkpoints,
                            calls |-> rollback.calls + 1 ]
    /\ UNCHANGED <<history, next_action_id, checkpoints, call, calls_made>>
    /\ UNCHANGED notRollback

InitRollback == rollback = NoRollback

NextRollback ==
    \/ \E status \in Statuses : LogActionCall(status)
    \/ \E id \in DOMAIN action_log : CreateCheckpoint(id, MaxSnapshots)
    \/ \E id \in 1..MaxRows, info \in RollbackInfos, ok \in BOOLEAN :
          RollbackCall(id, info, ok)

(***************************************************************************)
(* Record Accessors: create_workspace (db_helper.py lines 110-132), from   *)
(* several callers, each with its own connection.  The workspaces table    *)
(* is the sequence of its committed rows, the id of a row being its        *)
(* place.  The store lets one connection write at a time: the INSERT       *)
(* takes the write lock and the end of the scope (commit or rollback)      *)
(* gives it back; a connection that finds the lock taken waits, and gets   *)
(* `database is locked' when its timeout runs out.                         *)
(***************************************************************************)
Creators == {1, 2}

Names == {"Acme", "Beta"}

Descriptions == {"d1", "d2"}

IntegrityError ==
    Raise("sqlite3.IntegrityError", "UNIQUE constraint failed: workspaces.name", 60)

OperationalError == Raise("sqlite3.OperationalError", "database is locked", 61)

IdleCreator ==
    [ pc |-> "idle", name |-> "", description |-> "", table |-> << >>,
      seen |-> << >>, free |-> FALSE, result |-> None, raised |-> NoError ]

\* The schema's UNIQUE constraint on workspaces.name.
NameTaken(rows, name) == \E i \in 1..Len(rows) : rows[i].name = name

\* A plausible slip: the statement written as an upsert, as the setters
\* are: INSERT ... ON CONFLICT(name) DO UPDATE SET description = ...
InsertWorkspaceUpsert(rows, row) ==
    IF NameTaken(rows, row.name)
    THEN [ raised |-> NoError,
           table |-> [i \in 1..Len(rows) |->
                         IF rows[i].name = row.name THEN row ELSE rows[i]] ]
    ELSE [ raised |-> NoError, table |-> Append(rows, row) ]

\* Lines 125-131: INSERT INTO workspaces (name, description, project_type):
\* the error raised and the table as the transaction sees it afterwards.
InsertWorkspace(rows, row) ==
    IF NameTaken(rows, row.name)
    THEN [ raised |-> IntegrityError, table |-> rows ]
    ELSE [ raised |-> NoError, table |-> Append(rows, row) ]

\* Line 124: the caller enters `with get_connection() as conn'.  free notes
\* whether the name was free at that moment.
CreateBegin(c, name, description) ==
    /\ creator[c].pc = "idle"
    /\ creates < MaxCreates
    /\ creates' = creates + 1
    /\ creator' = [creator EXCEPT ![c] =
                     [IdleCreator EXCEPT !.pc = "insert", !.name = name,
                                         !.description = description,
                                         !.free = ~NameTaken(workspaces, name)]]
    /\ UNCHANGED <<workspaces, write_lock>>
    /\ UNCHANGED notWs

\* Lines 125-131 with the write lock free: the INSERT runs.  An
\* IntegrityError is a sqlite3.Error: get_connection rolls back, closes
\* and re-raises (lines 60-67).
CreateInsert(c) ==
    /\ creator[c].pc = "insert"
    /\ write_lock = 0
    /\ LET x == InsertWorkspace(workspaces,
                    [name |-> creator[c].name,
                     description |-> creator[c].description])
       IN  IF x.raised = NoError
           THEN /\ write_lock' = c
                /\ creator' = [creator EXCEPT ![c].pc = "commit",
                                              ![c].seen = workspaces,
                                              ![c].table = x.table]
           ELSE /\ write_lock' = write_lock
                /\ creator' = [creator EXCEPT ![c].pc = "raised",
                                              ![c].seen = workspaces,
                                              ![c].raised = x.raised]
    /\ UNCHANGED <<workspaces, creates>>
    /\ UNCHANGED notWs

\* Lines 125-131 with the write lock held by another connection until the
\* timeout runs out.
CreateBusy(c) ==
    /\ creator[c].pc = "insert"
    /\ write_lock \notin {0, c}
    /\ creator' = [creator EXCEPT ![c].pc = "raised",
                                  ![c].seen = workspaces,
                                  ![c].raised = OperationalError]
    /\ UNCHANGED <<workspaces, write_lock, creates>>
    /\ UNCHANGED notWs

\* Line 132 and the end of the scope (lines 59-67): cursor.lastrowid is
\* returned and conn.commit() runs; a refused commit rolls back and raises.
CreateCommit(c, ok) ==
    /\ creator[c].pc = "commit"
    /\ write_lock' = 0
    /\ IF ok
       THEN /\ workspaces' = creator[c].table
            /\ creator' = [creator EXCEPT ![c].pc = "returned",
                                          ![c].result = Len(creator[c].table)]
       ELSE /\ workspaces' = workspaces
            /\ creator' = [creator EXCEPT ![c].pc = "raised",
                                          ![c].raised = CommitError]
    /\ UNCHANGED creates
    /\ UNCHANGED notWs

CreateDone(c) ==
    /\ creator[c].pc \in {"returned", "raised"}
    /\ creator' = [creator EXCEPT ![c] = IdleCreator]
    /\ UNCHANGED <<workspaces, write_lock, creates>>
    /\ UNCHANGED notWs

InitWs ==
    /\ workspaces = << >>
    /\ write_lock = 0
    /\ creator = [c \in Creators |-> IdleCreator]
    /\ creates = 0

NextWs ==
    \/ \E c \in Creators, name \in Names, description \in Descriptions :
          CreateBegin(c, name, description)
    \/ \E c \in Creators : CreateInsert(c)
    \/ \E c \in Creators : CreateBusy(c)
    \/ \E c \in Creators, ok \in BOOLEAN : CreateCommit(c, ok)
    \/ \E c \in Creators : CreateDone(c)


(***************************************************************************)
(* Record Accessors: the key-value tables.  set_preference and             *)
(* get_preference (db_helper.py lines 284-305), set_context and            *)
(* get_context (lines 362-406), set_agent_state and get_agent_state        *)
(* (agent_brain.py lines 326-382).  A table is the sequence of its rows    *)
(* in the order of their insertion.  A workspace reference is the id of a  *)
(* workspace or None (SQL NULL), the global workspace; expires_at is the   *)
(* empty set for NULL and {t} for the time t.  The getters only read:      *)
(* they are operators on the tables.                                       *)
(***************************************************************************)
KvKeys == {"k1", "k2"}

KvValues == {"v1", "v2"}

WorkspaceRefs == {None, 1}

NoExpiry == {}

\* SQL `a = b': not true when either side is NULL.
SqlEq(a, b) == a # None /\ b # None /\ a = b

\* The schema's UNIQUE constraint on preferences.key: the row the INSERT
\* conflicts with, 0 when there is none.
PreferenceConflict(rows, key) ==
    IF \E i \in 1..Len(rows) : rows[i].key = key
    THEN CHOOSE i \in 1..Len(rows) : rows[i].key = key
    ELSE 0

\* The schema's UNIQUE constraint on (workspace_id, key): NULLs are
\* distinct from each other in a UNIQUE constraint, so a row of the global
\* workspace conflicts with no row.
ScopedConflict(rows, workspace_id, key) ==
    IF \E i \in 1..Len(rows) :
          SqlEq(rows[i].workspace_id, workspace_id) /\ rows[i].key = key
    THEN CHOOSE i \in 1..Len(rows) :
          SqlEq(rows[i].workspace_id, workspace_id) /\ rows[i].key = key
    ELSE 0

\* The schema's foreign key from workspace_id to workspaces, enforced by
\* PRAGMA foreign_keys=ON.
ForeignKeyHolds(workspace_id) ==
    workspace_id = None \/ workspace_id \in 1..Len(workspaces)

\* set_preference (db_helper.py lines 298-305): INSERT ... ON CONFLICT(key) DO UPDATE SET
\* value = ?  (the description of an existing row stays)
UpsertPreference(rows, key, value, description) ==
    LET i == PreferenceConflict(rows, key)
    IN  IF i = 0
        THEN Append(rows, [key |-> key, value |-> value,
                           description |-> description])
        ELSE [rows EXCEPT ![i].value = value]

\* db_helper.py lines 396-406 and agent_brain.py lines 338-349: INSERT ...
\* ON CONFLICT(workspace_id, key) DO UPDATE SET value = excluded.value,
\* expires_at = excluded.expires_at
UpsertScoped(rows, workspace_id, key, value, expires_at) ==
    LET i == ScopedConflict(rows, workspace_id, key)
    IN  IF i = 0
        THEN Append(rows, [workspace_id |-> workspace_id, key |-> key,
                           value |-> value, expires_at |-> expires_at])
        ELSE [rows EXCEPT ![i].value = value, ![i].expires_at = expires_at]

\* A timestamp as the text the store holds: the date, the separator
\* between date and time and the time of day.  datetime('now') of SQLite
\* writes 'YYYY-MM-DD HH:MM:SS'; isoformat() of Python writes
\* 'YYYY-MM-DDTHH:MM:SS'.  The model's day has TicksPerDay instants.
DatetimeNow(now) ==
    [day |-> now \div TicksPerDay, sep |-> " ", sec |-> now % TicksPerDay]

\* utils.py line 181: datetime.isoformat()
Isoformat(t) == [DatetimeNow(t) EXCEPT !.sep = "T"]

\* Comparison by the instants the two texts denote.
InstantLess(a, b) ==
    a.day * TicksPerDay + a.sec < b.day * TicksPerDay + b.sec

\* `a < b' on TEXT columns: character by character, the date first, then
\* the separator (' ' sorts before 'T'), then the time of day.
TextLess(a, b) ==
    \/ a.day < b.day
    \/ /\ a.day = b.day
       /\ \/ (a.sep = " " /\ b.sep = "T")
          \/ (a.sep = b.sep /\ a.sec < b.sec)

\* expires_at IS NULL OR expires_at > datetime('now')
NotExpired(row, now) == \A t \in row.expires_at : TextLess(DatetimeNow(now), t)

\* What fetchone() can return for the rows matched: the value of one of
\* them (the SELECTs have no ORDER BY), "None" when none matches.
FetchOne(rows, matched) ==
    IF matched = {} THEN {"None"} ELSE { rows[i].value : i \in matched }

\* get_preference (lines 284-292)
GetPreference(rows, key) ==
    FetchOne(rows, { i \in 1..Len(rows) : rows[i].key = key })

\* get_context (lines 362-382): WHERE workspace_id = ? AND key = ? AND ...
GetContext(rows, workspace_id, key, now) ==
    FetchOne(rows, { i \in 1..Len(rows) :
                        /\ SqlEq(rows[i].workspace_id, workspace_id)
                        /\ rows[i].key = key
                        /\ NotExpired(rows[i], now) })

\* get_agent_state (agent_brain.py lines 352-382): workspace_id = ? for a
\* workspace, workspace_id IS NULL for None.
GetAgentState(rows, workspace_id, key, now) ==
    FetchOne(rows, { i \in 1..Len(rows) :
                        /\ IF workspace_id # None
                           THEN SqlEq(rows[i].workspace_id, workspace_id)
                           ELSE rows[i].workspace_id = None
                        /\ rows[i].key = key
                        /\ NotExpired(rows[i], now) })

NoSet ==
    [ table |-> "none", workspace_id |-> None, key |-> "", value |-> "",
      repeat |-> FALSE, raised |-> NoError,
      before |-> << << >>, << >>, << >> >> ]

Tables == <<preferences, context, agent_state>>

\* The last call of a setter: its arguments, whether it repeats the last
\* set of its key, the error it raised and the tables before it.
SetRecord(table, workspace_id, key, value, raised) ==
    [ table |-> table, workspace_id |-> workspace_id, key |-> key,
      value |-> value, repeat |-> latest[<<table, workspace_id, key>>] = value,
      raised |-> raised, before |-> Tables ]

\* set_preference(key, value, description)
SetPreference(key, value, description) ==
    /\ sets < MaxSets
    /\ sets' = sets + 1
    /\ preferences' = UpsertPreference(preferences, key, value, description)
    /\ latest' = [latest EXCEPT ![<<"preferences", None, key>>] = value]
    /\ last_set' = SetRecord("preferences", None, key, value, NoError)
    /\ UNCHANGED <<context, agent_state>>
    /\ UNCHANGED notKv

\* set_context(workspace_id, key, value, expires_at): a reference to a workspace that
\* does not exist raises the integrity error and get_connection rolls back.
SetContext(workspace_id, key, value, expires_at) ==
    /\ sets < MaxSets
    /\ sets' = sets + 1
    /\ IF ForeignKeyHolds(workspace_id)
       THEN /\ context' = UpsertScoped(context, workspace_id, key, value, expires_at)
            /\ latest' = [latest EXCEPT ![<<"context", workspace_id, key>>] = value]
            /\ last_set' = SetRecord("context", workspace_id, key, value, NoError)
       ELSE /\ last_set' = SetRecord("context", workspace_id, key, value,
                                     IntegrityError)
            /\ UNCHANGED <<context, latest>>
    /\ UNCHANGED <<preferences, agent_state>>
    /\ UNCHANGED notKv

\* set_agent_state(workspace_id, state_key, state_value)
SetAgentState(workspace_id, key, value) ==
    /\ sets < MaxSets
    /\ sets' = sets + 1
    /\ IF ForeignKeyHolds(workspace_id)
       THEN /\ agent_state' = UpsertScoped(agent_state, workspace_id, key, value,
                                           NoExpiry)
            /\ latest' = [latest EXCEPT ![<<"agent_state", workspace_id, key>>] = value]
            /\ last_set' = SetRecord("agent_state", workspace_id, key, value, NoError)
       ELSE /\ last_set' = SetRecord("agent_state", workspace_id, key, value,
                                     IntegrityError)
            /\ UNCHANGED <<agent_state, latest>>
    /\ UNCHANGED <<preferences, context>>
    /\ UNCHANGED notKv

InitKv ==
    /\ preferences = << >>
    /\ context = << >>
    /\ agent_state = << >>
    /\ latest = [x \in {"preferences", "context", "agent_state"}
                        \X WorkspaceRefs \X KvKeys |-> "None"]
    /\ last_set = NoSet
    /\ sets = 0

\* The setters, after one caller has created the workspace they refer to.
NextKv ==
    \/ CreateBegin(1, "Acme", "d1")
    \/ CreateInsert(1)
    \/ CreateCommit(1, TRUE)
    \/ CreateDone(1)
    \/ \E key \in KvKeys, value \in KvValues : SetPreference(key, value, "d1")
    \/ \E workspace_id \in WorkspaceRefs, key \in KvKeys, value \in KvValues :
          SetContext(workspace_id, key, value, NoExpiry)
    \/ \E workspace_id \in WorkspaceRefs, key \in KvKeys, value \in KvValues :
          SetAgentState(workspace_id, key, value)


(***************************************************************************)
(* Reliability decorators: retry_with_backoff                              *)
(***************************************************************************)
\* The `exceptions' argument of the decorator: the default (Exception,) and
\* a narrower tuple.
ExceptionTuples == { {"Exception"}, {"IOError"} }

\* What one invocation of the wrapped operation can do: return, raise an
\* IOError, raise a ValueError.
OpOutcomes == {"ok", "IOError", "ValueError"}

IdleRetry ==
    [ pc |-> "idle", max_retries |-> 0, initial_delay |-> 0, backoff_factor |-> 0,
      exceptions |-> {}, attempt |-> 0, delay |-> 0, last_exception |-> NoError,
      outcomes |-> <<>>, sleeps |-> <<>>, returned |-> "None", raised |-> NoError ]

\* A plausible slip: a bare except, every error is retried.
MatchesAnything(e, excs) == TRUE

\* Line 100: `except exceptions as e' catches e when its class is in the
\* tuple or derives from a class in it.
Matches(e, excs) ==
    \/ e.cls \in excs
    \/ "Exception" \in excs /\ IsException(e)

\* Line 97: range(max_retries + 1), the number of iterations of the loop.
Attempts(max_retries) == max_retries + 1

\* A plausible slip: the delay grows by addition.
NextDelayAdded(delay, backoff_factor) == delay + backoff_factor

\* Line 108: delay *= backoff_factor
NextDelay(delay, backoff_factor) == delay * backoff_factor

\* Lines 93-95: the wrapper is called.
RetryCall(mr, d, f, excs) ==
    /\ retry.pc = "idle"
    /\ retry' = [IdleRetry EXCEPT !.pc = "loop", !.max_retries = mr,
                                  !.initial_delay = d, !.backoff_factor = f,
                                  !.exceptions = excs, !.delay = d]
    /\ UNCHANGED notRetry

\* Lines 97-114: one iteration of the loop; after the last iteration the
\* loop ends and line 114 raises last_exception.
RetryAttempt(out) ==
    /\ retry.pc = "loop"
    /\ retry.attempt < Attempts(retry.max_retries)
    /\ LET e == Raise(out, "failed", retry.attempt + 1)
           r1 == [retry EXCEPT !.outcomes = Append(@, out)]
           slept == retry.attempt < retry.max_retries
           last == retry.attempt + 1 >= Attempts(retry.max_retries)
       IN  retry' =
             IF out = "ok"
             THEN [r1 EXCEPT !.pc = "returned", !.returned = "r1"]
             ELSE IF ~Matches(e, retry.exceptions)
             THEN [r1 EXCEPT !.pc = "raised", !.raised = e]
             ELSE [r1 EXCEPT
                     !.last_exception = e,
                     !.sleeps = IF slept THEN Append(@, retry.delay) ELSE @,
                     !.delay = IF slept THEN NextDelay(@, retry.backoff_factor) ELSE @,
                     !.attempt = @ + 1,
                     !.pc = IF last THEN "raised" ELSE @,
                     !.raised = IF last THEN e ELSE @]
    /\ UNCHANGED notRetry

\* The caller has received the result or the error.
RetryDone ==
    /\ retry.pc \in {"returned", "raised"}
    /\ retry' = IdleRetry
    /\ UNCHANGED notRetry

InitRetry == retry = IdleRetry

NextRetry ==
    \/ \E mr \in 0..MaxRetries, d \in 1..MaxDelay, f \in 1..MaxFactor,
          excs \in ExceptionTuples : RetryCall(mr, d, f, excs)
    \/ \E out \in OpOutcomes : RetryAttempt(out)
    \/ RetryDone


(***************************************************************************)
(* Reliability decorators: recover_from_error.  There are two              *)
(* implementations: reliability.py (lines 251-309), whose loop is          *)
(* `for attempt in range(max_retries + 1)' and which sleeps between        *)
(* retries, and error_recovery.py (lines 23-74), whose loop is             *)
(* `while attempt < max_retries'.  recover.impl tells which one runs.      *)
(***************************************************************************)
Impls == {"reliability", "error_recovery"}

Strategies == {"retry", "rollback", "skip", "fail"}

\* How the call carries an action id: not at all, as action_id=..., or as
\* a positional argument.
ArgKinds == {"none", "keyword", "positional"}

\* The errors the wrapped operation raises here (all of them Exceptions).
RecoverErrors == { Raise("ValueError", "boom", 41), Raise("IOError", "disk", 42) }

\* The defaults initial_delay=1.0 and backoff_factor=2.0 of reliability.py.
InitialDelay == 1

BackoffFactor == 2

IdleRecover ==
    [ pc |-> "idle", impl |-> "reliability", strategy |-> "fail",
      max_retries |-> 0, arg |-> "none", action_id |-> 0, attempt |-> 0,
      delay |-> 0, sleeps |-> <<>>, invoked |-> 0, last_error |-> NoError,
      rollbacks |-> <<>>, returned |-> "None", raised |-> NoError ]

\* reliability.py line 270: for attempt in range(max_retries + 1)
RangeLoop(attempt, max_retries) == attempt < max_retries + 1

\* error_recovery.py line 36: while attempt < max_retries
WhileLoop(attempt, max_retries) == attempt < max_retries

LoopCondition(r) ==
    IF r.impl = "reliability"
    THEN RangeLoop(r.attempt, r.max_retries)
    ELSE WhileLoop(r.attempt, r.max_retries)

\* `if attempt < max_retries' under strategy retry: reliability.py (line
\* 277) tests the index of the iteration, error_recovery.py (lines 40, 44)
\* the number of failures including this one.
RetryAgain(r) ==
    IF r.impl = "reliability"
    THEN r.attempt < r.max_retries
    ELSE r.attempt + 1 < r.max_retries

\* Lines 290 / 55: 'action_id' in kwargs
ActionIdInKwargs(r) == r.arg = "keyword"

\* The wrapper is called.  Only strategy rollback looks at the arguments.
RecoverCall(impl, strategy, mr, arg, id) ==
    /\ recover.pc = "idle"
    /\ (strategy # "rollback") => arg = "none"
    /\ (arg = "none") <=> (id = 0)
    /\ recover' = [IdleRecover EXCEPT !.pc = "loop", !.impl = impl,
                                      !.strategy = strategy,
                                      !.max_retries = mr, !.arg = arg,
                                      !.action_id = id,
                                      !.delay = InitialDelay]
    /\ UNCHANGED verifyVars
    /\ UNCHANGED notRecover

\* One iteration of the loop: the operation is invoked and returns
\* (out = NoError) or raises out; the except clause then acts by strategy.
\* rb_ok tells whether the store accepts the write of rollback_action.
RecoverAttempt(out, rb_ok) ==
    /\ recover.pc = "loop"
    /\ LoopCondition(recover)
    /\ LET r == [recover EXCEPT !.invoked = @ + 1, !.last_error = out]
           x == RollbackResult(action_log, checkpoints, r.action_id, Str(out), rb_ok)
       IN  IF out = NoError
           THEN /\ recover' = [r EXCEPT !.pc = "returned", !.returned = "r1"]
                /\ UNCHANGED action_log
           ELSE IF r.strategy = "retry"
           THEN /\ recover' =
                      IF RetryAgain(r)
                      THEN [r EXCEPT !.attempt = @ + 1,
                                     !.sleeps = IF r.impl = "reliability"
                                                THEN Append(@, r.delay) ELSE @,
                                     !.delay = NextDelay(@, BackoffFactor)]
                      ELSE [r EXCEPT !.pc = "raised", !.raised = out]
                /\ UNCHANGED action_log
           ELSE IF r.strategy = "rollback"
           THEN IF ActionIdInKwargs(r)
                THEN /\ action_log' = x.log
                     /\ recover' = [r EXCEPT !.pc = "raised", !.raised = out,
                                             !.rollbacks = Append(@,
                                                [id |-> r.action_id, ret |-> x.ret])]
                ELSE /\ recover' = [r EXCEPT !.pc = "raised", !.raised = out]
                     /\ UNCHANGED action_log
           ELSE IF r.strategy = "skip"
           THEN /\ recover' = [r EXCEPT !.pc = "returned", !.returned = "None"]
                /\ UNCHANGED action_log
           ELSE /\ recover' = [r EXCEPT !.pc = "raised", !.raised = out]
                /\ UNCHANGED action_log
    /\ UNCHANGED <<history, next_action_id, checkpoints, call, calls_made>>
    /\ UNCHANGED notRecover

\* The loop ends without a return or a raise: the wrapper falls off its end
\* and returns None.
RecoverLoopExit ==
    /\ recover.pc = "loop"
    /\ ~LoopCondition(recover)
    /\ recover' = [recover EXCEPT !.pc = "returned", !.returned = "None"]
    /\ UNCHANGED verifyVars
    /\ UNCHANGED notRecover

RecoverDone ==
    /\ recover.pc \in {"returned", "raised"}
    /\ recover' = IdleRecover
    /\ UNCHANGED verifyVars
    /\ UNCHANGED notRecover

InitRecover == recover = IdleRecover

NextRecover ==
    \/ \E status \in {"in_progress"} : LogActionCall(status)
    \/ \E id \in DOMAIN action_log : CreateCheckpoint(id, MaxRecoverSnapshots)
    \/ \E impl \in Impls, strategy \in Strategies, mr \in 0..MaxRecoverRetries,
          arg \in ArgKinds, id \in 0..MaxRows :
          RecoverCall(impl, strategy, mr, arg, id)
    \/ \E out \in RecoverErrors \cup {NoError}, rb_ok \in BOOLEAN :
          RecoverAttempt(out, rb_ok)
    \/ RecoverLoopExit
    \/ RecoverDone

(***************************************************************************)
(* Reliability decorators: require_safety_check (lines 120-154).  Names    *)
(* are sequences of characters, so that lower() and `keyword in name' are  *)
(* computed.                                                               *)
(***************************************************************************)
UpperCase == <<"A", "B", "C", "D", "E", "F", "G", "H", "I", "J", "K", "L", "M",
               "N", "O", "P", "Q", "R", "S", "T", "U", "V", "W", "X", "Y", "Z">>

LowerCase == <<"a", "b", "c", "d", "e", "f", "g", "h", "i", "j", "k", "l", "m",
               "n", "o", "p", "q", "r", "s", "t", "u", "v", "w", "x", "y", "z">>

\* str.lower()
Lower(name) ==
    [ i \in 1..Len(name) |->
        IF \E j \in 1..26 : UpperCase[j] = name[i]
        THEN LowerCase[CHOOSE j \in 1..26 : UpperCase[j] = name[i]]
        ELSE name[i] ]

\* keyword in name
Contains(name, keyword) ==
    \E i \in 0..(Len(name) - Len(keyword)) :
        SubSeq(name, i + 1, i + Len(keyword)) = keyword

\* Line 132
DestructiveKeywords ==
    { <<"d", "e", "l", "e", "t", "e">>,
      <<"r", "e", "m", "o", "v", "e">>,
      <<"d", "r", "o", "p">>,
      <<"t", "r", "u", "n", "c", "a", "t", "e">>,
      <<"c", "l", "e", "a", "r">> }

\* Lines 130-132
IsDestructive(name) ==
    \E keyword \in DestructiveKeywords : Contains(Lower(name), keyword)

\* The names of the wrapped functions: get_user, safe_delete_workspace,
\* ClearAll, list_items.
FuncNames ==
    { <<"g", "e", "t", "_", "u", "s", "e", "r">>,
      <<"s", "a", "f", "e", "_", "d", "e", "l", "e", "t", "e", "_", "w",
        "o", "r", "k", "s", "p", "a", "c", "e">>,
      <<"C", "l", "e", "a", "r", "A", "l", "l">>,
      <<"l", "i", "s", "t", "_", "i", "t", "e", "m", "s">> }

\* check_func: absent, or a function whose result is truthy, or falsy.
CheckFuncs == {"none", "truthy", "falsy"}

\* How the call passes confirm, and the value passed: not at all, by
\* keyword, or as the positional argument in the place of the parameter.
ConfirmArgs ==
    { [how |-> "absent", value |-> "False"] }
       \cup [how : {"keyword", "positional"}, value : {"True", "False", "'no'"}]

\* bool(value)
Truthy(value) == value # "False"

\* Line 146: kwargs.get('confirm', False)
KwargsGetConfirm(confirm) ==
    IF confirm.how = "keyword" THEN confirm.value ELSE "False"

SafetyCheckFailed == Raise("SafetyCheckFailed", "Operation blocked", 50)

IdleSafety ==
    [ pc |-> "idle", name |-> << >>, check_func |-> "none",
      confirm |-> [how |-> "absent", value |-> "False"],
      invoked |-> FALSE, raised |-> NoError ]

\* The wrapper's decision (lines 134-151): TRUE when func is invoked.
SafetyPasses(name, check_func, confirm) ==
    IF IsDestructive(name)
    THEN IF check_func # "none"
         THEN check_func = "truthy"
         ELSE Truthy(KwargsGetConfirm(confirm))
    ELSE TRUE

SafetyCall(name, check_func, confirm) ==
    /\ safety.pc = "idle"
    /\ safety' = [IdleSafety EXCEPT !.pc = "called", !.name = name,
                                    !.check_func = check_func,
                                    !.confirm = confirm]
    /\ UNCHANGED notSafety

SafetyWrapper ==
    /\ safety.pc = "called"
    /\ safety' =
          IF SafetyPasses(safety.name, safety.check_func, safety.confirm)
          THEN [safety EXCEPT !.pc = "done", !.invoked = TRUE]
          ELSE [safety EXCEPT !.pc = "done", !.raised = SafetyCheckFailed]
    /\ UNCHANGED notSafety

SafetyDone ==
    /\ safety.pc = "done"
    /\ safety' = IdleSafety
    /\ UNCHANGED notSafety

InitSafety == safety = IdleSafety

NextSafety ==
    \/ \E name \in FuncNames, check_func \in CheckFuncs, confirm \in ConfirmArgs :
          SafetyCall(name, check_func, confirm)
    \/ SafetyWrapper
    \/ SafetyDone


(***************************************************************************)
(* Reliability decorators: RateLimiter, rate_limit                         *)
(***************************************************************************)
Keys == {"api_call", "db_write"}

\* Before RateLimiter(...) is constructed.
NoLimiter == [max_calls |-> 0, time_window |-> 0, calls |-> [k \in Keys |-> <<>>]]

\* Line 64: the call times of the list that are after window_start.
Prune(times, window_start) == SelectSeq(times, LAMBDA t : t > window_start)

\* A plausible slip: > in place of >=, one call too many is admitted.
LimitReachedStrict(n, max_calls) == n > max_calls

\* Line 67: len(self.calls[key]) >= self.max_calls
LimitReached(n, max_calls) == n >= max_calls

\* RateLimiter.check_limit (lines 51-73): the limiter after the check and
\* whether RateLimitError was raised.
CheckLimit(lim, key, now) ==
    LET window_start == now - lim.time_window
        kept == Prune(lim.calls[key], window_start)
    IN  IF LimitReached(Len(kept), lim.max_calls)
        THEN [ limiter |-> [lim EXCEPT !.calls[key] = kept], rejected |-> TRUE ]
        ELSE [ limiter |-> [lim EXCEPT !.calls[key] = Append(kept, now)],
               rejected |-> FALSE ]

\* RateLimiter.__init__ (lines 40-49)
RateLimiterInit(mc, tw) ==
    /\ limiter = NoLimiter
    /\ limiter' = [max_calls |-> mc, time_window |-> tw, calls |-> [k \in Keys |-> <<>>]]
    /\ UNCHANGED <<clock, checks>>
    /\ UNCHANGED notRate

\* time.time() moves on.
Tick ==
    /\ clock < MaxTime
    /\ clock' = clock + 1
    /\ UNCHANGED <<limiter, checks>>
    /\ UNCHANGED notRate

\* rate_limit's wrapper (lines 166-168): check_limit(key), then the wrapped
\* operation unless check_limit raised.  checks records, for each call, its
\* key, its time, whether it was rejected and whether the operation ran.
RateLimitedCall(key) ==
    /\ limiter # NoLimiter
    /\ Len(checks) < MaxChecks
    /\ LET x == CheckLimit(limiter, key, clock)
       IN  /\ limiter' = x.limiter
           /\ checks' = Append(checks, [key |-> key, at |-> clock,
                                        rejected |-> x.rejected,
                                        invoked |-> ~x.rejected])
    /\ UNCHANGED clock
    /\ UNCHANGED notRate

InitRate ==
    /\ limiter = NoLimiter
    /\ clock = 0
    /\ checks = <<>>

NextRate ==
    \/ \E mc \in 1..MaxLimit, tw \in 1..MaxWindow : RateLimiterInit(mc, tw)
    \/ Tick
    \/ \E key \in Keys : RateLimitedCall(key)

(***************************************************************************)
(* RateLimiter.check_limit called from several threads.  The method takes  *)
(* no lock, so a thread can be preempted between any two of its            *)
(* statements, and within line 64 between reading the list and storing     *)
(* the pruned copy.  The steps of one call:                                *)
(*   ReadClock      lines 60-61   now, window_start                        *)
(*   PruneRead      line 64       the comprehension reads self.calls[key]  *)
(*   PruneStore     line 64       self.calls[key] = <the pruned copy>      *)
(*   CheckLen       lines 67-70   len(self.calls[key]) >= self.max_calls   *)
(*   AppendNow      line 73       self.calls[key].append(now)              *)
(***************************************************************************)
Threads == {1, 2}

\* The key all the threads use.
ConcKey == "db_write"

IdleThread == [pc |-> "idle", now |-> 0, kept |-> <<>>]

ReadClock(t) ==
    /\ limiter # NoLimiter
    /\ thread[t].pc = "idle"
    /\ begun < MaxConcCalls
    /\ begun' = begun + 1
    /\ thread' = [thread EXCEPT ![t] = [pc |-> "prune", now |-> clock, kept |-> <<>>]]
    /\ UNCHANGED <<limiter, clock, admitted>>
    /\ UNCHANGED notConc

PruneRead(t) ==
    /\ thread[t].pc = "prune"
    /\ thread' = [thread EXCEPT ![t].pc = "store",
                                ![t].kept = Prune(limiter.calls[ConcKey],
                                                  thread[t].now - limiter.time_window)]
    /\ UNCHANGED <<limiter, clock, admitted, begun>>
    /\ UNCHANGED notConc

PruneStore(t) ==
    /\ thread[t].pc = "store"
    /\ limiter' = [limiter EXCEPT !.calls[ConcKey] = thread[t].kept]
    /\ thread' = [thread EXCEPT ![t].pc = "check", ![t].kept = <<>>]
    /\ UNCHANGED <<clock, admitted, begun>>
    /\ UNCHANGED notConc

\* RateLimitError leaves check_limit at once; otherwise line 73 is next.
CheckLen(t) ==
    /\ thread[t].pc = "check"
    /\ thread' = [thread EXCEPT ![t].pc =
                     IF LimitReached(Len(limiter.calls[ConcKey]), limiter.max_calls)
                     THEN "idle" ELSE "append"]
    /\ UNCHANGED <<limiter, clock, admitted, begun>>
    /\ UNCHANGED notConc

\* The call is admitted: check_limit returns after the append.  admitted
\* keeps the `now' of every call that returned without RateLimitError.
AppendNow(t) ==
    /\ thread[t].pc = "append"
    /\ limiter' = [limiter EXCEPT !.calls[ConcKey] = Append(@, thread[t].now)]
    /\ admitted' = Append(admitted, thread[t].now)
    /\ thread' = [thread EXCEPT ![t] = IdleThread]
    /\ UNCHANGED <<clock, begun>>
    /\ UNCHANGED notConc

InitConc ==
    /\ thread = [t \in Threads |-> IdleThread]
    /\ admitted = <<>>
    /\ begun = 0

NextRateConc ==
    \/ \E mc \in 1..MaxLimit, tw \in 1..MaxWindow : RateLimiterInit(mc, tw)
    \/ Tick
    \/ \E t \in Threads : ReadClock(t)
    \/ \E t \in Threads : PruneRead(t)
    \/ \E t \in Threads : PruneStore(t)
    \/ \E t \in Threads : CheckLen(t)
    \/ \E t \in Threads : AppendNow(t)

(***************************************************************************)
(* Expiry and the active flag: set_context_with_ttl and                    *)
(* cleanup_expired_contexts (utils.py lines 168-183), add_rule and         *)
(* get_rules (db_helper.py lines 164-187 and 225-239).  The clock is the   *)
(* store's datetime('now') and the callers' datetime.now().                *)
(***************************************************************************)
\* The expires_at a caller of set_context passes at the instant now: none,
\* or a later instant in the notation of the store.
Expiries(now) == {NoExpiry} \cup { {DatetimeNow(now + ttl)} : ttl \in 1..MaxTtl }

\* set_context_with_ttl (utils.py lines 179-183)
SetContextWithTtl(workspace_id, key, value, ttl_seconds) ==
    SetContext(workspace_id, key, value, {Isoformat(clock + ttl_seconds)})

\* The comparison of a repair that compares instants, not texts.
CleanupDeletesByInstant(row, now) ==
    \E t \in row.expires_at : InstantLess(t, DatetimeNow(now))

\* DELETE FROM context WHERE expires_at IS NOT NULL AND
\* expires_at < datetime('now')
CleanupDeletes(row, now) ==
    \E t \in row.expires_at : TextLess(t, DatetimeNow(now))

NoCleanup == [now |-> 0, before |-> << >>, after |-> << >>, deleted |-> -1]

\* cleanup_expired_contexts (utils.py lines 168-176); cleanup records the
\* table before and after the last pass and the count it returned.
CleanupExpiredContexts ==
    LET kept == SelectSeq(context, LAMBDA row : ~CleanupDeletes(row, clock))
    IN  /\ context' = kept
        /\ cleanup' = [now |-> clock, before |-> context, after |-> kept,
                       deleted |-> Len(context) - Len(kept)]
        /\ UNCHANGED <<preferences, agent_state, latest, last_set, sets, rules>>
        /\ UNCHANGED notExp

\* The column default of the schema: a new rule is active.
DefaultIsActive == 1

\* add_rule (db_helper.py lines 164-187): the row is inserted unless the
\* workspace does not exist.
AddRule(workspace_id, rule_name) ==
    /\ Len(rules) < MaxRules
    /\ rules' = IF ForeignKeyHolds(workspace_id)
                THEN Append(rules, [workspace_id |-> workspace_id,
                                    rule_name |-> rule_name,
                                    is_active |-> DefaultIsActive])
                ELSE rules
    /\ UNCHANGED <<cleanup, kvVars>>
    /\ UNCHANGED notExp

\* The soft delete of a rule: its active flag is set to 0.
DeactivateRule(id) ==
    /\ id \in 1..Len(rules)
    /\ rules[id].is_active = 1
    /\ rules' = [rules EXCEPT ![id].is_active = 0]
    /\ UNCHANGED <<cleanup, kvVars>>
    /\ UNCHANGED notExp

\* A slip: the filter on the active flag left out.
GetRulesAnyFlag(rows, workspace_id) ==
    SelectSeq(rows, LAMBDA r : SqlEq(r.workspace_id, workspace_id))

\* get_rules (db_helper.py lines 225-239)
GetRules(rows, workspace_id) ==
    SelectSeq(rows, LAMBDA r : SqlEq(r.workspace_id, workspace_id)
                               /\ r.is_active = 1)

InitExp ==
    /\ rules = << >>
    /\ cleanup = NoCleanup

\* Contexts with an expiry and the cleanup pass, after one caller has
\* created the workspace they refer to.
NextExpiry ==
    \/ Tick
    \/ CreateBegin(1, "Acme", "d1")
    \/ CreateInsert(1)
    \/ CreateCommit(1, TRUE)
    \/ CreateDone(1)
    \/ /\ sets < MaxExpirySets
       /\ \E workspace_id \in WorkspaceRefs, e \in Expiries(clock) :
             SetContext(workspace_id, "k1", "v1", e)
    \/ /\ sets < MaxExpirySets
       /\ \E workspace_id \in WorkspaceRefs, ttl \in 1..MaxTtl :
             SetContextWithTtl(workspace_id, "k1", "v2", ttl)
    \/ CleanupExpiredContexts

\* The rules of the workspaces one caller creates.
NextRules ==
    \/ \E name \in Names : CreateBegin(1, name, "d1")
    \/ CreateInsert(1)
    \/ CreateCommit(1, TRUE)
    \/ CreateDone(1)
    \/ \E workspace_id \in 1..2 : AddRule(workspace_id, "style")
    \/ \E id \in 1..MaxRules : DeactivateRule(id)

(***************************************************************************)
(* Concurrent scopes of get_connection on one store (db_helper.py lines    *)
(* 37-67).  Every connection sets journal_mode = WAL and busy_timeout, so  *)
(* the store admits one writing transaction at a time, serves readers from *)
(* the last committed state whatever a writer does, and makes a statement  *)
(* that needs the write lock retry until the lock is free or the busy      *)
(* timeout has run out.                                                    *)
(***************************************************************************)
Sessions == {1, 2, 3}

\* PRAGMA busy_timeout = 30000 (line 45), in waits of the busy handler.
BusyTimeout == 2

IdleSession ==
    [pc |-> "idle", kind |-> "none", waited |-> 0, raised |-> NoError,
     beside |-> 0]

\* A journal that is not a write-ahead log: a reader waits for the writer.
ReaderAdmittedRollbackJournal(w) == w = 0

\* PRAGMA journal_mode = WAL (line 43): a reader is admitted whoever holds
\* the write lock.
ReaderAdmitted(w) == TRUE

\* The busy handler gives up once the configured time has been waited.
BusyTimeoutExpired(waited) == waited >= BusyTimeout

\* Lines 37-46 and 58: the scope is entered, the connection is configured
\* and the body is about to run its statement, a write or a read.
OpenScope(s, kind) ==
    /\ session[s].pc = "idle"
    /\ session' = [session EXCEPT ![s] =
                      [IdleSession EXCEPT !.pc = "statement", !.kind = kind]]
    /\ UNCHANGED writer
    /\ UNCHANGED notLock

\* The write statement finds the write lock free and takes it.
AcquireWriteLock(s) ==
    /\ session[s].pc = "statement"
    /\ session[s].kind = "write"
    /\ writer = 0
    /\ writer' = s
    /\ session' = [session EXCEPT ![s].pc = "writing"]
    /\ UNCHANGED notLock

\* The write statement finds the lock held: the busy handler waits and
\* the statement is tried again.
BusyWait(s) ==
    /\ session[s].pc = "statement"
    /\ session[s].kind = "write"
    /\ writer # 0
    /\ ~BusyTimeoutExpired(session[s].waited)
    /\ session' = [session EXCEPT ![s].waited = @ + 1]
    /\ UNCHANGED writer
    /\ UNCHANGED notLock

\* The lock is still held when the timeout has run out: the statement
\* raises `database is locked'; lines 60-67 roll back, close and re-raise.
BusyFail(s) ==
    /\ session[s].pc = "statement"
    /\ session[s].kind = "write"
    /\ writer # 0
    /\ BusyTimeoutExpired(session[s].waited)
    /\ session' = [session EXCEPT ![s].pc = "raised",
                                  ![s].raised = OperationalError]
    /\ UNCHANGED writer
    /\ UNCHANGED notLock

\* A read statement; beside notes the writer in flight at that moment.
ReadStatement(s) ==
    /\ session[s].pc = "statement"
    /\ session[s].kind = "read"
    /\ ReaderAdmitted(writer)
    /\ session' = [session EXCEPT ![s].pc = "returned", ![s].beside = writer]
    /\ UNCHANGED writer
    /\ UNCHANGED notLock

\* Lines 59-67: the body of the writer ends; commit (or rollback after an
\* error of the body) ends the transaction and frees the write lock.
EndTransaction(s, e) ==
    /\ session[s].pc = "writing"
    /\ writer' = 0
    /\ session' = [session EXCEPT
                      ![s].pc = IF e = NoError THEN "returned" ELSE "raised",
                      ![s].raised = e]
    /\ UNCHANGED notLock

\* Line 67: the connection is closed and the scope is left.
CloseScope(s) ==
    /\ session[s].pc \in {"returned", "raised"}
    /\ session' = [session EXCEPT ![s] = IdleSession]
    /\ UNCHANGED writer
    /\ UNCHANGED notLock

InitLock ==
    /\ session = [s \in Sessions |-> IdleSession]
    /\ writer = 0

NextLock ==
    \/ \E s \in Sessions, kind \in {"write", "read"} : OpenScope(s, kind)
    \/ \E s \in Sessions : AcquireWriteLock(s)
    \/ \E s \in Sessions : BusyWait(s)
    \/ \E s \in Sessions : BusyFail(s)
    \/ \E s \in Sessions : ReadStatement(s)
    \/ \E s \in Sessions, e \in {NoError, IntegrityError} : EndTransaction(s, e)
    \/ \E s \in Sessions : CloseScope(s)

\* The busy handler of a waiting statement runs: it is the thread of the
\* caller itself that sleeps and retries.
BusyHandler(s) == AcquireWriteLock(s) \/ BusyWait(s) \/ BusyFail(s)

(***************************************************************************)
(* Schema Bootstrap: init_database (db_helper.py lines 70-107).  The store *)
(* at db_path is absent or holds a set of objects; the schema file is      *)
(* absent or a script of n statements, each creating one object, of which  *)
(* statement `fail' is refused (0: none), with or without a BEGIN ...      *)
(* COMMIT of its own around them.                                          *)
(***************************************************************************)
Absent == [exists |-> FALSE, objects |-> {}]

\* What a store holds beside its schema once it has been in use: its data,
\* object 0.
OldObjects == {0}

Scripts ==
    { [present |-> p, n |-> n, fail |-> f, wrapped |-> w] :
         p \in BOOLEAN, n \in 1..MaxObjects, f \in 0..MaxObjects, w \in BOOLEAN }

FileNotFoundError == Raise("FileNotFoundError", "Schema file not found", 97)

SchemaError == Raise("sqlite3.Error", "syntax error", 104)

IdleInit ==
    [pc |-> "idle", script |-> [present |-> FALSE, n |-> 1, fail |-> 0,
                                wrapped |-> FALSE],
     pos |-> 1, pending |-> {}, had_store |-> FALSE, opened |-> 0,
     raised |-> NoError]

\* The existing store kept: the removal left out.
UnlinkSkipped(d) == d

\* Lines 91-93: db_path.unlink()
UnlinkExisting(d) == Absent

\* Where a statement of executescript lands: executescript opens no
\* transaction, so outside a BEGIN of the script a statement is committed
\* as soon as it has run; inside one it stays pending.
Land(d, pending, wrapped, obj) ==
    IF wrapped
    THEN [disk |-> d, pending |-> pending \cup {obj}]
    ELSE [disk |-> [d EXCEPT !.objects = @ \cup {obj}], pending |-> pending]

\* Lines 70-91: the call, with the schema file it is given.
InitDatabaseCall(script) ==
    /\ init.pc = "idle"
    /\ script.fail <= script.n
    /\ init' = [IdleInit EXCEPT !.pc = "remove", !.script = script]
    /\ UNCHANGED disk
    /\ UNCHANGED notInit

\* Lines 91-93: an existing store is removed.
RemoveExisting ==
    /\ init.pc = "remove"
    /\ disk' = IF disk.exists THEN UnlinkExisting(disk) ELSE disk
    /\ init' = [init EXCEPT !.pc = "check", !.had_store = disk.exists]
    /\ UNCHANGED notInit

\* Lines 96-100: the schema file is looked for and read.
CheckSchema ==
    /\ init.pc = "check"
    /\ init' = IF init.script.present
               THEN [init EXCEPT !.pc = "connect"]
               ELSE [init EXCEPT !.pc = "raised", !.raised = FileNotFoundError]
    /\ UNCHANGED disk
    /\ UNCHANGED notInit

\* Line 103: get_connection(db_path) opens the connection, which creates
\* the store.
ConnectStore ==
    /\ init.pc = "connect"
    /\ disk' = [exists |-> TRUE, objects |-> {}]
    /\ init' = [init EXCEPT !.pc = "script", !.opened = @ + 1]
    /\ UNCHANGED notInit

\* Line 104: the next statement of executescript.  A refused statement
\* raises a sqlite3.Error; get_connection rolls back what is pending, closes
\* and re-raises (lines 60-67).
ExecuteStatement ==
    /\ init.pc = "script"
    /\ init.pos <= init.script.n
    /\ IF init.pos = init.script.fail
       THEN /\ init' = [init EXCEPT !.pc = "raised", !.raised = SchemaError,
                                    !.pending = {}]
            /\ UNCHANGED disk
       ELSE LET x == Land(disk, init.pending, init.script.wrapped, init.pos)
            IN  /\ disk' = x.disk
                /\ init' = [init EXCEPT !.pos = @ + 1, !.pending = x.pending]
    /\ UNCHANGED notInit

\* The script has run: its COMMIT, if it has one, and conn.commit() of
\* line 59 land what is pending; the connection is closed.
ScriptEnd ==
    /\ init.pc = "script"
    /\ init.pos > init.script.n
    /\ disk' = [disk EXCEPT !.objects = @ \cup init.pending]
    /\ init' = [init EXCEPT !.pc = "returned", !.pending = {}]
    /\ UNCHANGED notInit

\* The call is over; the store stays as it is and comes into use.
InitDatabaseDone(used) ==
    /\ init.pc \in {"returned", "raised"}
    /\ init' = IdleInit
    /\ disk' = IF disk.exists /\ used
               THEN [disk EXCEPT !.objects = @ \cup OldObjects]
               ELSE disk
    /\ UNCHANGED notInit

InitInit ==
    /\ disk \in {Absent, [exists |-> TRUE, objects |-> OldObjects]}
    /\ init = IdleInit

NextInit ==
    \/ \E script \in Scripts : InitDatabaseCall(script)
    \/ RemoveExisting
    \/ CheckSchema
    \/ ConnectStore
    \/ ExecuteStatement
    \/ ScriptEnd
    \/ \E used \in BOOLEAN : InitDatabaseDone(used)

(***************************************************************************)
(* Pattern learning: record_pattern and update_pattern_success             *)
(* (agent_brain.py lines 214-268).  A success rate is kept as the fraction *)
(* it denotes, in lowest terms.                                            *)
(***************************************************************************)
Updaters == {1, 2}

RECURSIVE GCD(_, _)
GCD(a, b) == IF b = 0 THEN a ELSE GCD(b, a % b)

Fraction(p, q) == [num |-> p \div GCD(p, q), den |-> q \div GCD(p, q)]

\* The column defaults a new pattern starts from.
NewPattern == [success_rate |-> Fraction(0, 1), usage_count |-> 0]

IdleUpdater ==
    [pc |-> "idle", pattern_id |-> 0, success |-> FALSE, found |-> FALSE,
     current_rate |-> Fraction(0, 1), count |-> 0, before |-> << >>]

\* A slip: the old rate and the outcome averaged with equal weights.
NewRateUnweighted(current_rate, count, success) ==
    Fraction(current_rate.num + (IF success THEN 1 ELSE 0) * current_rate.den,
             current_rate.den * 2)

\* Line 258: ((current_rate * count) + (1.0 if success else 0.0)) / (count + 1)
NewRate(current_rate, count, success) ==
    Fraction(current_rate.num * count
                + (IF success THEN 1 ELSE 0) * current_rate.den,
             current_rate.den * (count + 1))

\* record_pattern (lines 214-237)
RecordPattern ==
    /\ Len(patterns) < MaxPatterns
    /\ patterns' = Append(patterns, NewPattern)
    /\ tally' = Append(tally, [calls |-> 0, successes |-> 0])
    /\ UNCHANGED <<updater, updates>>
    /\ UNCHANGED notPattern

\* Line 247: a caller enters update_pattern_success(pattern_id, success).
UpdateBegin(u, pattern_id, success) ==
    /\ updater[u].pc = "idle"
    /\ updates < MaxUpdates
    /\ updates' = updates + 1
    /\ updater' = [updater EXCEPT ![u] =
                      [IdleUpdater EXCEPT !.pc = "select",
                                          !.pattern_id = pattern_id,
                                          !.success = success,
                                          !.before = patterns]]
    /\ UNCHANGED <<patterns, tally>>
    /\ UNCHANGED notPattern

\* Lines 249-256: the SELECT of the current rate and count; with no such
\* row the call ends.
SelectStats(u) ==
    /\ updater[u].pc = "select"
    /\ updater' = [updater EXCEPT ![u] =
          IF updater[u].pattern_id \in 1..Len(patterns)
          THEN [@ EXCEPT !.pc = "update", !.found = TRUE,
                   !.current_rate = patterns[updater[u].pattern_id].success_rate,
                   !.count = patterns[updater[u].pattern_id].usage_count]
          ELSE [@ EXCEPT !.pc = "returned"]]
    /\ UNCHANGED <<patterns, tally, updates>>
    /\ UNCHANGED notPattern

\* Lines 258-268 and the commit of the scope: the rate computed from what
\* was read is stored and usage_count is incremented in the store.  tally
\* counts, per pattern, the calls that have updated it and their successes.
UpdateStats(u) ==
    /\ updater[u].pc = "update"
    /\ LET id == updater[u].pattern_id
       IN  /\ patterns' = [patterns EXCEPT
                 ![id].success_rate = NewRate(updater[u].current_rate,
                                              updater[u].count,
                                              updater[u].success),
                 ![id].usage_count = @ + 1]
           /\ tally' = [tally EXCEPT
                 ![id].calls = @ + 1,
                 ![id].successes = @ + (IF updater[u].success THEN 1 ELSE 0)]
    /\ updater' = [updater EXCEPT ![u].pc = "returned"]
    /\ UNCHANGED updates
    /\ UNCHANGED notPattern

UpdateDone(u) ==
    /\ updater[u].pc = "returned"
    /\ updater' = [updater EXCEPT ![u] = IdleUpdater]
    /\ UNCHANGED <<patterns, tally, updates>>
    /\ UNCHANGED notPattern

InitPattern ==
    /\ patterns = << >>
    /\ tally = << >>
    /\ updater = [u \in Updaters |-> IdleUpdater]
    /\ updates = 0

\* One caller: the calls follow each other.
NextPattern ==
    \/ updater[1].pc = "idle" /\ RecordPattern
    \/ \E pattern_id \in 1..(MaxPatterns + 1), success \in BOOLEAN :
          UpdateBegin(1, pattern_id, success)
    \/ SelectStats(1)
    \/ UpdateStats(1)
    \/ UpdateDone(1)

\* Independent callers, each with its own connection.
NextPatternConc ==
    \/ RecordPattern
    \/ \E u \in Updaters, pattern_id \in 1..(MaxPatterns + 1), success \in BOOLEAN :
          UpdateBegin(u, pattern_id, success)
    \/ \E u \in Updaters : SelectStats(u)
    \/ \E u \in Updaters : UpdateStats(u)
    \/ \E u \in Updaters : UpdateDone(u)

(***************************************************************************)
(* Agent Brain: record_decision, update_decision_outcome, store_knowledge  *)
(* and learn_from_decision                                                 *)
(***************************************************************************)

\* A nullable column holds no value (NULL) or one.
Null == {}

\* The reasoning texts tried: NULL, the empty text and a text.
Reasonings == {Null, {""}, {"r"}}

\* Lines 126-133: the INSERT of record_decision names neither outcome nor
\* success, so both get what the table gives a column left out: NULL, or 0
\* for a flag declared with that default.
UnsetFlags == {Null, {0}}

\* Python's truth value of a flag column and of a text column.
FlagIsTrue(flag) == \E v \in flag : v # 0

TextIsTrue(text) == \E v \in text : v # ""

\* The text of a column that holds one.
TextOf(text) == CHOOSE v \in text : TRUE

NoLearn ==
    [called |-> FALSE, decision_id |-> 0, before |-> << >>, after |-> << >>,
     written |-> << >>]

\* Lines 109-134: record_decision.
RecordDecision(reasoning, flag) ==
    /\ Len(decisions) < MaxDecisions
    /\ decisions' = Append(decisions,
                           [reasoning |-> reasoning, outcome |-> Null,
                            success |-> flag])
    /\ UNCHANGED <<knowledge, learn>>
    /\ UNCHANGED notDecision

\* Lines 137-153: UPDATE agent_decisions SET outcome = ?, success = ?
\* WHERE id = ?, with success stored as 1 or 0.
UpdateDecisionOutcome(decision_id, outcome, success) ==
    /\ decisions' = [i \in DOMAIN decisions |->
                        IF i = decision_id
                           THEN [decisions[i] EXCEPT
                                    !.outcome = {outcome},
                                    !.success = {IF success THEN 1 ELSE 0}]
                           ELSE decisions[i]]
    /\ UNCHANGED <<knowledge, learn>>
    /\ UNCHANGED notDecision

\* Lines 15-37 (store_knowledge): one INSERT into agent_knowledge.
StoreKnowledge(rows, fact, source, confidence) ==
    Append(rows, [fact |-> fact, source |-> source, confidence |-> confidence])

\* Lines 431-451: the rows of agent_knowledge after learning from a row
\* of agent_decisions.
LearnFrom(rows, decision_id, decision) ==
    IF FlagIsTrue(decision.success)
       THEN IF TextIsTrue(decision.reasoning)
               THEN StoreKnowledge(rows,
                       <<"Successful approach: ", TextOf(decision.reasoning)>>,
                       decision_id, Fraction(8, 10))
               ELSE rows
       ELSE IF TextIsTrue(decision.reasoning)
               THEN StoreKnowledge(rows,
                       <<"Avoid: ", TextOf(decision.reasoning),
                         " - led to failure">>,
                       decision_id, Fraction(6, 10))
               ELSE rows

\* Lines 416-451: learn_from_decision(decision_id); it returns at line 429
\* when the SELECT finds no row.
LearnFromDecision(decision_id) ==
    /\ Len(knowledge) < MaxKnowledge
    /\ knowledge' = IF decision_id \in DOMAIN decisions
                       THEN LearnFrom(knowledge, decision_id,
                                      decisions[decision_id])
                       ELSE knowledge
    /\ UNCHANGED decisions
    /\ learn' = [called |-> TRUE, decision_id |-> decision_id,
                 before |-> decisions, after |-> decisions',
                 written |-> SubSeq(knowledge', Len(knowledge) + 1,
                                    Len(knowledge'))]
    /\ UNCHANGED notDecision

InitDecision ==
    /\ decisions = << >>
    /\ knowledge = << >>
    /\ learn = NoLearn

NextDecision ==
    \/ \E reasoning \in Reasonings, flag \in UnsetFlags :
          RecordDecision(reasoning, flag)
    \/ \E decision_id \in 1..(MaxDecisions + 1), success \in BOOLEAN :
          UpdateDecisionOutcome(decision_id, "o", success)
    \/ \E decision_id \in 1..(MaxDecisions + 1) : LearnFromDecision(decision_id)

Init == InitConn /\ InitVerify /\ InitRetry /\ InitRate /\ InitConc
        /\ InitRollback /\ InitRecover /\ InitSafety
        /\ InitWs /\ InitKv /\ InitExp /\ InitLock /\ InitInit /\ InitPattern /\ InitDecision

SpecConn == Init /\ [][NextConn]_vars

SpecVerify == Init /\ [][NextVerify]_vars

SpecRetry == Init /\ [][NextRetry]_vars

SpecRate == Init /\ [][NextRate]_vars

SpecRateConc == Init /\ [][NextRateConc]_vars

SpecRollback == Init /\ [][NextRollback]_vars

SpecRecover == Init /\ [][NextRecover]_vars

SpecStack == Init /\ [][NextStack]_vars

SpecInterrupt == Init /\ [][NextInterrupt]_vars

SpecSafety == Init /\ [][NextSafety]_vars

SpecWs == Init /\ [][NextWs]_vars

SpecKv == Init /\ [][NextKv]_vars

SpecExpiry == Init /\ [][NextExpiry]_vars

SpecRules == Init /\ [][NextRules]_vars

SpecLock ==
    Init /\ [][NextLock]_vars /\ \A s \in Sessions : WF_vars(BusyHandler(s))

SpecInit == Init /\ [][NextInit]_vars

SpecPattern == Init /\ [][NextPattern]_vars

SpecPatternConc == Init /\ [][NextPatternConc]_vars

SpecDecision == Init /\ [][NextDecision]_vars

Next ==
    \/ NextConn
    \/ NextVerify
    \/ NextRetry
    \/ NextRate
    \/ NextRateConc
    \/ NextRollback
    \/ NextRecover
    \/ NextStack
    \/ NextInterrupt
    \/ NextSafety
    \/ NextWs
    \/ NextKv
    \/ NextExpiry
    \/ NextRules
    \/ NextLock
    \/ NextInit
    \/ NextPattern
    \/ NextPatternConc
    \/ NextDecision

Spec == Init /\ [][Next]_vars

----------------------------------------------------------------------------
(***************************************************************************)
(* Claims about get_connection                                             *)
(***************************************************************************)
ScopeEnded == scope.pc \in {"returned", "raised"}

C2_AllHandlesClosed ==
    ScopeEnded => \A h \in 1..Len(handles) : handles[h] = "closed"

\* C3: at most retry_count attempts are made, the wait before attempt k+1
\* is 0.1s * k, the body is entered only right after a successful attempt,
\* and when every attempt fails the last error is raised and the body is
\* never entered, for every retry_count from 0 up.
C3_RetryThenEnterOrRaise ==
    /\ Len(scope.results) <= scope.retry_count
    /\ \A k \in 1..Len(scope.sleeps) : scope.sleeps[k] = k
    /\ scope.entered =>
          /\ scope.results # <<>>
          /\ scope.results[Len(scope.results)] = "ok"
          /\ scope.conn # None
          /\ Len(scope.sleeps) = Len(scope.results) - 1
    /\ (scope.pc = "raised" /\ ~scope.entered) =>
          /\ scope.raised = scope.last_error
          /\ scope.raised.at = scope.retry_count
          /\ \A k \in 1..Len(scope.results) : scope.results[k] # "ok"
    /\ (scope.pc # "connect" /\ scope.pc # "idle"
            /\ \A k \in 1..Len(scope.results) : scope.results[k] # "ok") =>
          ~scope.entered

----------------------------------------------------------------------------
(***************************************************************************)
(* Claims about require_verification and the Action Log                    *)
(***************************************************************************)
\* The statuses a row has had, the cancellations by rollback_action aside.
Uncancelled(h) == SelectSeq(h, LAMBDA x : x # "cancelled")

\* C4: a wrapped call whose operation returned normally (and whose audit
\* writes the store accepted) has created exactly one Action Log row, which
\* was pending first, in_progress before the operation was invoked and
\* completed after it returned, and the caller gets the operation's result
\* unchanged; such a call fails only with the store's own error.
C4_SuccessLifecycle ==
    \A c \in Callers :
        /\ call[c].pc = "returned" =>
              /\ call[c].rows = {call[c].action_id}
              /\ call[c].trace = <<"pending", "in_progress", "invoke", "completed">>
              /\ Uncancelled(history[call[c].action_id])
                    = <<"pending", "in_progress", "completed">>
              /\ call[c].result \in Results
              /\ call[c].returned = call[c].result
        /\ (call[c].pc = "raised" /\ call[c].result \in Results) =>
              /\ IsSqliteError(call[c].raised)
              /\ call[c].op_error = NoError

\* A wrapped call has returned and its row is completed.
C4_Witness ==
    \E c \in Callers :
        /\ call[c].pc = "returned"
        /\ call[c].action_id \in DOMAIN action_log
        /\ action_log[call[c].action_id].status = "completed"
        /\ call[c].returned \in Results

\* C5: after a wrapped call whose operation raised (the store accepting the
\* audit write), the call's row is failed, its description is the non-empty
\* error text, and the caller gets the operation's error.
C5_FailureRecorded ==
    \A c \in Callers :
        (call[c].pc = "raised" /\ call[c].op_error # NoError
                /\ call[c].fail_write = "ok") =>
            /\ call[c].action_id \in DOMAIN action_log
            /\ action_log[call[c].action_id].status = "failed"
            /\ action_log[call[c].action_id].description = Str(call[c].op_error)
            /\ action_log[call[c].action_id].description \notin {"", "NULL"}
            /\ call[c].raised = call[c].op_error

AllowedTransitions ==
    { <<"pending", "in_progress">>, <<"in_progress", "completed">>,
      <<"in_progress", "failed">>, <<"completed", "cancelled">> }

\* C6: the status of an Action Log row changes only along
\* pending->in_progress, in_progress->completed, in_progress->failed and
\* completed->cancelled, whatever wrapped calls, rollbacks and cleanups
\* interleave.
C6_StatusTransitions ==
    [][\A id \in DOMAIN action_log \cap DOMAIN action_log' :
          \/ action_log'[id].status = action_log[id].status
          \/ <<action_log[id].status, action_log'[id].status>> \in AllowedTransitions]_vars

\* C7: when the store refuses the write that marks the row failed, the
\* caller still gets the error of the wrapped operation.
C7_OriginalErrorKept ==
    \A c \in Callers :
        (call[c].pc = "raised" /\ call[c].op_error # NoError
                /\ call[c].fail_write = "refused") =>
            call[c].raised = call[c].op_error

----------------------------------------------------------------------------
(***************************************************************************)
(* Claims about retry_with_backoff                                         *)
(***************************************************************************)
RECURSIVE Pow(_, _)
Pow(b, n) == IF n = 0 THEN 1 ELSE b * Pow(b, n - 1)

\* The error classes the `exceptions' tuple of this call lets retry.
Retryable(cls) == cls \in retry.exceptions \/ "Exception" \in retry.exceptions

\* C8: the wrapped operation is invoked at most max_retries+1 times, the
\* first success ends the call with its result, the sleep after the k-th
\* failed attempt is initial_delay * backoff_factor^(k-1) with no sleep
\* after attempt max_retries+1, and max_retries+1 failures re-raise the
\* last error unchanged.
C8_RetryWithBackoff ==
    LET n == Len(retry.outcomes)
        retried == {k \in 1..n : retry.outcomes[k] # "ok" /\ Retryable(retry.outcomes[k])}
    IN  /\ n <= retry.max_retries + 1
        /\ \A k \in 1..n : retry.outcomes[k] = "ok" =>
              /\ k = n
              /\ retry.pc = "returned"
              /\ retry.returned = "r1"
        /\ retry.pc = "returned" => n >= 1 /\ retry.outcomes[n] = "ok"
        /\ \A k \in 1..Len(retry.sleeps) :
              retry.sleeps[k] = retry.initial_delay * Pow(retry.backoff_factor, k - 1)
        /\ Len(retry.sleeps) = Cardinality(retried \ {retry.max_retries + 1})
        /\ (retry.pc = "loop" /\ n >= 1) => Len(retry.sleeps) = n
        /\ (retry.pc = "raised" /\ retried = 1..n) => n = retry.max_retries + 1
        /\ retried = 1..(retry.max_retries + 1) =>
              /\ retry.pc = "raised"
              /\ retry.raised = Raise(retry.outcomes[n], "failed", n)

\* Every attempt of a call with two retries failed: two sleeps, then the
\* last error.
C8_Witness ==
    /\ retry.pc = "raised"
    /\ retry.max_retries = 2
    /\ retry.backoff_factor = 2
    /\ Len(retry.outcomes) = 3
    /\ retry.sleeps = <<retry.initial_delay, 2 * retry.initial_delay>>
    /\ retry.raised.at = 3

\* C9: an error that does not match `exceptions' leaves the wrapper at
\* once, whichever attempt raised it: it is the last attempt, the caller
\* gets that error, and no sleep follows it.
C9_NonRetryablePropagates ==
    \A k \in 1..Len(retry.outcomes) :
        (retry.outcomes[k] # "ok" /\ ~Retryable(retry.outcomes[k])) =>
            /\ k = Len(retry.outcomes)
            /\ retry.pc = "raised"
            /\ retry.raised = Raise(retry.outcomes[k], "failed", k)
            /\ Len(retry.sleeps) = k - 1

\* A non-matching error was raised by the second attempt of a call that had
\* attempts left.
C9_Witness ==
    /\ retry.pc = "raised"
    /\ Len(retry.outcomes) = 2
    /\ retry.max_retries >= 2
    /\ ~Retryable(retry.outcomes[2])
    /\ Len(retry.sleeps) = 1

----------------------------------------------------------------------------
(***************************************************************************)
(* Claims about the RateLimiter                                            *)
(***************************************************************************)
\* The earlier admitted calls under the key of call i whose time is within
\* the window that ends at call i.
AdmittedInWindow(i) ==
    { j \in 1..(i - 1) :
        /\ checks[j].key = checks[i].key
        /\ ~checks[j].rejected
        /\ checks[j].at > checks[i].at - limiter.time_window }

\* The times of the admitted calls under key k that are after window_start.
AdmittedTimes(k, window_start) ==
    LET sel == SelectSeq(checks, LAMBDA c : c.key = k /\ ~c.rejected /\ c.at > window_start)
    IN  [i \in 1..Len(sel) |-> sel[i].at]

\* The last call made under key k (0 when there is none).
LastCheck(k) ==
    IF \E i \in 1..Len(checks) : checks[i].key = k
    THEN CHOOSE i \in 1..Len(checks) :
            /\ checks[i].key = k
            /\ \A j \in (i + 1)..Len(checks) : checks[j].key # k
    ELSE 0

\* C10: in a sequential run a call is rejected exactly when the admitted
\* calls under its key within the last time_window seconds number at least
\* max_calls; the wrapped operation runs exactly for the admitted calls;
\* the list of a key holds the times of its admitted calls and no rejected
\* one, and is not touched by calls under other keys.
C10_SlidingWindow ==
    /\ \A i \in 1..Len(checks) :
          /\ checks[i].rejected <=> Cardinality(AdmittedInWindow(i)) >= limiter.max_calls
          /\ checks[i].invoked <=> ~checks[i].rejected
    /\ \A k \in Keys :
          limiter.calls[k] =
             IF LastCheck(k) = 0 THEN <<>>
             ELSE AdmittedTimes(k, checks[LastCheck(k)].at - limiter.time_window)

\* max_calls = 2 and three calls under one key within one window: only the
\* third is rejected.
C10_Witness ==
    /\ limiter.max_calls = 2
    /\ Len(checks) >= 3
    /\ checks[1].key = checks[2].key /\ checks[2].key = checks[3].key
    /\ checks[3].at < checks[1].at + limiter.time_window
    /\ ~checks[1].rejected /\ ~checks[2].rejected /\ checks[3].rejected
    /\ ~checks[3].invoked

----------------------------------------------------------------------------
(***************************************************************************)
(* Claims about the RateLimiter under concurrent callers                   *)
(***************************************************************************)
\* The admitted calls whose time lies in the window (w - time_window, w].
AdmittedWithin(w) ==
    { i \in 1..Len(admitted) :
        admitted[i] > w - limiter.time_window /\ admitted[i] <= w }

\* How many times t occurs in the sequence s.
Count(s, t) == Cardinality({ i \in 1..Len(s) : s[i] = t })

\* C11: with several threads inside check_limit on the same key, under
\* every interleaving of their steps, no time window holds more than
\* max_calls admitted calls, and the time of every admitted call that is
\* still within the current window is in the list of the key.
C11_ConcurrentSafe ==
    /\ \A w \in 0..clock : Cardinality(AdmittedWithin(w)) <= limiter.max_calls
    /\ \A t \in 0..clock :
          t > clock - limiter.time_window
             => Count(limiter.calls[ConcKey], t) >= Count(admitted, t)

----------------------------------------------------------------------------
(***************************************************************************)
(* Claims about rollback_action                                            *)
(***************************************************************************)
\* The checkpoints the action of the last rollback_action call had.
OwnCheckpoints ==
    { k \in 1..Len(rollback.cps_before) : rollback.cps_before[k] = rollback.id }

\* C16: a rollback_action call the store accepts, on an action with no
\* checkpoint, returns False and changes no row; on an existing action with
\* at least one checkpoint it fetches the checkpoint created last, returns
\* True, leaves the row cancelled with the given rollback_info, and changes
\* no other Action Log row and no checkpoint.
C16_RollbackAction ==
    (rollback.calls > 0 /\ rollback.raised = NoError) =>
       /\ OwnCheckpoints = {} =>
             /\ rollback.ret = "False"
             /\ rollback.log_after = rollback.log_before
             /\ rollback.cps_after = rollback.cps_before
       /\ (OwnCheckpoints # {} /\ rollback.id \in DOMAIN rollback.log_before) =>
             /\ rollback.ret = "True"
             /\ rollback.selected \in OwnCheckpoints
             /\ \A k \in OwnCheckpoints : k <= rollback.selected
             /\ DOMAIN rollback.log_after = DOMAIN rollback.log_before
             /\ rollback.log_after[rollback.id] =
                   [rollback.log_before[rollback.id] EXCEPT
                       !.status = "cancelled", !.rollback_info = rollback.info]
             /\ \A i \in DOMAIN rollback.log_before \ {rollback.id} :
                   rollback.log_after[i] = rollback.log_before[i]
             /\ rollback.cps_after = rollback.cps_before

\* An action with two checkpoints, and another action between them, has
\* been rolled back; and a call on an action with no checkpoint has returned.
C16_Witness ==
    /\ rollback.calls > 0
    /\ rollback.ret = "True"
    /\ Cardinality(OwnCheckpoints) >= 2
    /\ Cardinality(DOMAIN rollback.log_before) >= 2
    /\ rollback.log_before[rollback.id].status # "cancelled"
    /\ action_log[rollback.id].status = "cancelled"

----------------------------------------------------------------------------
(***************************************************************************)
(* Claims about recover_from_error                                         *)
(***************************************************************************)
RecoverEnded == recover.pc \in {"returned", "raised"}

\* C13: under strategy retry, in both implementations, the operation is
\* invoked at most max_retries + 1 times; while fewer attempts than that
\* have been made and none has succeeded, another one follows; the call
\* returns the result of the first attempt that succeeds; it raises only
\* after max_retries + 1 failed attempts, and then the error of the last.
C13_RecoverRetry ==
    recover.strategy = "retry" =>
       /\ recover.invoked <= recover.max_retries + 1
       /\ (recover.pc = "loop" /\ recover.invoked < recover.max_retries + 1)
             => LoopCondition(recover)
       /\ recover.pc = "returned"
             => (recover.last_error = NoError /\ recover.returned = "r1")
       /\ recover.pc = "raised"
             => /\ recover.invoked = recover.max_retries + 1
                /\ recover.last_error # NoError
                /\ recover.raised = recover.last_error

\* C14: under strategy rollback, when the operation has raised and the call
\* carries an action id, positional or keyword, rollback_action has been
\* called exactly once, for that id, the operation has been invoked once,
\* and the call raises the operation's error, whatever rollback_action did.
C14_RecoverRollback ==
    ( /\ RecoverEnded
      /\ recover.strategy = "rollback"
      /\ recover.arg # "none"
      /\ recover.last_error # NoError ) =>
       /\ Len(recover.rollbacks) = 1
       /\ recover.rollbacks[1].id = recover.action_id
       /\ recover.invoked = 1
       /\ recover.pc = "raised"
       /\ recover.raised = recover.last_error

\* C15: under strategies skip and fail, for every max_retries >= 0, a call
\* that has ended has invoked the operation exactly once: it returns the
\* operation's result when that succeeded; when it raised, skip returns
\* None and fail raises the error.
C15_RecoverSkipFail ==
    (RecoverEnded /\ recover.strategy \in {"skip", "fail"}) =>
       /\ recover.invoked = 1
       /\ recover.last_error = NoError
             => (recover.pc = "returned" /\ recover.returned = "r1")
       /\ (recover.last_error # NoError /\ recover.strategy = "skip")
             => (recover.pc = "returned" /\ recover.returned = "None")
       /\ (recover.last_error # NoError /\ recover.strategy = "fail")
             => (recover.pc = "raised" /\ recover.raised = recover.last_error)

----------------------------------------------------------------------------
(***************************************************************************)
(* Claims about the decorator stack                                        *)
(***************************************************************************)
CallEnded(c) == call[c].pc \in {"returned", "raised"}

\* The business logic of the call of c has raised, whether the error
\* reached require_verification or an inner decorator swallowed it.
BusinessRaised(c) ==
    call[c].op_error # NoError \/ call[c].business_error # NoError

\* C12: when a call through the stack has ended, its Action Log row is
\* completed only if the business logic did not raise, and is failed
\* whenever the business logic raised (the store accepting the audit
\* writes), whatever the inner decorator did with the error.
C12_NoInventedSuccess ==
    \A c \in Callers :
        (CallEnded(c) /\ call[c].action_id \in DOMAIN action_log) =>
            /\ action_log[call[c].action_id].status = "completed"
                  => ~BusinessRaised(c)
            /\ (BusinessRaised(c) /\ call[c].fail_write # "refused")
                  => action_log[call[c].action_id].status = "failed"

\* C18: a call that fails with a ValidationError has written no Action Log
\* row by the time the error is raised to the caller.
C18_NoMutationBeforeValidationError ==
    \A c \in Callers :
        (call[c].pc = "raised" /\ call[c].raised.cls = "ValidationError") =>
            /\ call[c].rows = {}
            /\ call[c].action_id \notin DOMAIN action_log

----------------------------------------------------------------------------
(***************************************************************************)
(* Claims about require_safety_check                                       *)
(***************************************************************************)
\* The call passes confirm=true, by keyword or in the parameter's place.
PassesConfirmTrue(confirm) == confirm.how # "absent" /\ confirm.value = "True"

\* C17: the wrapped operation is invoked exactly when its name has none of
\* the destructive keywords, or the custom check returns a truthy value,
\* or, with no custom check, the call passes confirm=true; in every other
\* case SafetyCheckFailed is raised and the operation is not invoked.
C17_SafetyGate ==
    safety.pc = "done" =>
       /\ safety.invoked <=>
             \/ ~IsDestructive(safety.name)
             \/ safety.check_func = "truthy"
             \/ (safety.check_func = "none" /\ PassesConfirmTrue(safety.confirm))
       /\ ~safety.invoked => safety.raised = SafetyCheckFailed
       /\ safety.invoked => safety.raised = NoError

----------------------------------------------------------------------------
(***************************************************************************)
(* Claims about create_workspace                                           *)
(***************************************************************************)
CreateEnded(c) == creator[c].pc \in {"returned", "raised"}

\* C20: no two workspace rows have the same name; a create_workspace whose
\* name exists when its INSERT runs raises the integrity error and the
\* table it found stays as it was until the call ends; every other call the
\* store lets through adds exactly its row; and of two calls for a name
\* that was free when both began, neither refused by the store at commit,
\* exactly one succeeds.
C20_UniqueWorkspaceName ==
    /\ \A i, j \in 1..Len(workspaces) :
          workspaces[i].name = workspaces[j].name => i = j
    /\ \A c \in Creators :
          /\ (CreateEnded(c) /\ creator[c].raised # OperationalError
                             /\ NameTaken(creator[c].seen, creator[c].name)) =>
                /\ creator[c].pc = "raised"
                /\ creator[c].raised = IntegrityError
                /\ \A i \in 1..Len(creator[c].seen) :
                      /\ i <= Len(workspaces)
                      /\ workspaces[i] = creator[c].seen[i]
          /\ creator[c].pc = "returned" =>
                /\ ~NameTaken(creator[c].seen, creator[c].name)
                /\ creator[c].result \in 1..Len(workspaces)
                /\ workspaces[creator[c].result] =
                      [name |-> creator[c].name,
                       description |-> creator[c].description]
    /\ \A c, d \in Creators :
          ( /\ c # d /\ CreateEnded(c) /\ CreateEnded(d)
            /\ creator[c].name = creator[d].name
            /\ creator[c].free /\ creator[d].free
            /\ creator[c].raised # CommitError
            /\ creator[d].raised # CommitError ) =>
             (creator[c].pc = "returned") # (creator[d].pc = "returned")

\* Two callers began to create the same free name before either INSERT ran;
\* one has its row, the other the integrity error.
C20_Witness ==
    \E c, d \in Creators :
        /\ c # d
        /\ creator[c].name = creator[d].name
        /\ creator[c].free /\ creator[d].free
        /\ creator[c].pc = "returned"
        /\ creator[d].pc = "raised" /\ creator[d].raised = IntegrityError
        /\ creator[d].description # creator[c].description

----------------------------------------------------------------------------
(***************************************************************************)
(* Claims about the key-value tables                                       *)
(***************************************************************************)
\* The rows of a table under a workspace reference and a key.
RowsOf(rows, workspace_id, key) ==
    { i \in 1..Len(rows) : rows[i].workspace_id = workspace_id /\ rows[i].key = key }

\* C19: after any sequence of set_preference, set_context and
\* set_agent_state calls there is exactly one row per key that has been
\* set, per (workspace, key) for context and agent state, the global
\* workspace included, and none for the others; the matching get returns
\* the value of the last set of the key; and a set that repeats the last
\* set of its key leaves the tables as they were.
C19_UpsertOneRowPerKey ==
    /\ \A key \in KvKeys :
          /\ Cardinality({ i \in 1..Len(preferences) : preferences[i].key = key })
                = IF latest[<<"preferences", None, key>>] = "None" THEN 0 ELSE 1
          /\ GetPreference(preferences, key) = {latest[<<"preferences", None, key>>]}
    /\ \A workspace_id \in WorkspaceRefs, key \in KvKeys :
          /\ Cardinality(RowsOf(context, workspace_id, key))
                = IF latest[<<"context", workspace_id, key>>] = "None" THEN 0 ELSE 1
          /\ GetContext(context, workspace_id, key, clock)
                = {latest[<<"context", workspace_id, key>>]}
          /\ Cardinality(RowsOf(agent_state, workspace_id, key))
                = IF latest[<<"agent_state", workspace_id, key>>] = "None" THEN 0 ELSE 1
          /\ GetAgentState(agent_state, workspace_id, key, clock)
                = {latest[<<"agent_state", workspace_id, key>>]}
    /\ (last_set.repeat /\ last_set.raised = NoError) => Tables = last_set.before

----------------------------------------------------------------------------
(***************************************************************************)
(* Claims about the filters of the readers and the cleanup of contexts     *)
(***************************************************************************)
\* The instant a row expires at lies before the instant now.
InThePast(row, now) == \E t \in row.expires_at : InstantLess(t, DatetimeNow(now))

\* C21: in every reachable state get_rules(workspace) returns only rows of
\* that workspace whose active flag is 1, get_context(workspace, key)
\* returns no value when every row of the key has its expires_at in the
\* past, and the value of a row with no expiry is returned.
C21_ReadersFilter ==
    /\ \A workspace_id \in 1..2 :
          \A i \in 1..Len(GetRules(rules, workspace_id)) :
             /\ GetRules(rules, workspace_id)[i].workspace_id = workspace_id
             /\ GetRules(rules, workspace_id)[i].is_active = 1
    /\ \A workspace_id \in WorkspaceRefs, key \in KvKeys :
          /\ ( /\ RowsOf(context, workspace_id, key) # {}
               /\ \A i \in RowsOf(context, workspace_id, key) :
                     InThePast(context[i], clock) )
                => GetContext(context, workspace_id, key, clock) = {"None"}
          /\ \A i \in RowsOf(context, workspace_id, key) :
                context[i].expires_at = NoExpiry
                   => context[i].value
                         \in GetContext(context, workspace_id, key, clock)

\* The rules half of C21 where rules exist: after any sequence of add_rule
\* and deactivations, get_rules returns exactly the active rows of the
\* workspace, in the order of the table.
C21_RulesFiltered ==
    \A workspace_id \in 1..2 :
       GetRules(rules, workspace_id)
          = SelectSeq(rules, LAMBDA r : r.workspace_id = workspace_id
                                        /\ r.is_active # 0)

C28_SetThenGet ==
    [][ \A workspace_id \in WorkspaceRefs, value \in KvValues,
          e \in Expiries(clock) \cup { {Isoformat(clock + ttl)} : ttl \in 1..MaxTtl } :
          ( /\ SetContext(workspace_id, "k1", value, e)
            /\ ForeignKeyHolds(workspace_id) )
          => GetContext(context', workspace_id, "k1", clock') = {value} ]_vars

----------------------------------------------------------------------------
(***************************************************************************)
(* Claims about concurrent scopes                                          *)
(***************************************************************************)
\* C23: with several scopes open at once at most one is writing; a reader
\* at its statement can always run it, whoever writes; a writer that is
\* waiting has waited no longer than the busy timeout, fails with the lock
\* error only when the timeout has run out, and always goes on to write or
\* to fail: it never waits for ever.
C23_WriteLock ==
    /\ [](Cardinality({ s \in Sessions : session[s].pc = "writing" }) <= 1)
    /\ [](\A s \in Sessions :
            /\ session[s].pc = "writing" => writer = s
            /\ (session[s].pc = "statement" /\ session[s].kind = "read")
                  => ENABLED ReadStatement(s)
            /\ session[s].waited <= BusyTimeout
            /\ session[s].raised = OperationalError
                  => session[s].waited = BusyTimeout)
    /\ \A s \in Sessions :
          (session[s].pc = "statement" /\ session[s].kind = "write")
             ~> (session[s].pc \in {"writing", "raised"})

\* A writer that failed after the full timeout beside a writer in flight,
\* while a reader has read beside that writer.
C23_Witness ==
    \E s, t, r \in Sessions :
       /\ session[s].pc = "raised" /\ session[s].raised = OperationalError
       /\ session[s].waited = BusyTimeout
       /\ session[t].pc = "writing"
       /\ session[r].pc = "returned" /\ session[r].beside = t

----------------------------------------------------------------------------
(***************************************************************************)
(* Claims about the Schema Bootstrap                                       *)
(***************************************************************************)
InitEnded == init.pc \in {"returned", "raised"}

\* C24: after init_database has returned or raised, the store at path
\* holds every object the schema file defines or none of them.
C24_SchemaAtomic ==
    InitEnded => disk.objects \in { {}, 1..init.script.n }

\* C29: init_database with an absent schema file raises the
\* schema-not-found error, has opened no connection, and leaves no store at
\* path, whether or not there was one before the call.
C29_AbsentSchema ==
    (InitEnded /\ ~init.script.present)
       => /\ init.raised = FileNotFoundError
          /\ init.opened = 0
          /\ disk = Absent

\* A call with an absent schema file that found a store at path.
C29_Witness ==
    /\ InitEnded
    /\ ~init.script.present
    /\ init.had_store
    /\ ~disk.exists

----------------------------------------------------------------------------
(***************************************************************************)
(* Claims about the success rate of a pattern                              *)
(***************************************************************************)
\* Every pattern holds the mean of the outcomes of the calls that have
\* updated it, and their number.
StreamingMean ==
    \A id \in 1..Len(patterns) :
       /\ patterns[id].usage_count = tally[id].calls
       /\ patterns[id].success_rate
             = IF tally[id].calls = 0 THEN Fraction(0, 1)
               ELSE Fraction(tally[id].successes, tally[id].calls)

\* C25: with one caller, from success_rate 0 and usage_count 0, after n
\* calls of which k report success the pattern has success_rate k/n and
\* usage_count n, and a call for a pattern id that does not exist leaves
\* the patterns as they were.
C25_StreamingMean ==
    /\ StreamingMean
    /\ (updater[1].pc = "returned" /\ ~updater[1].found)
          => patterns = updater[1].before

\* The outcomes true, false, true: success_rate 2/3 and usage_count 3.
C25_Witness ==
    /\ Len(patterns) >= 1
    /\ tally[1] = [calls |-> 3, successes |-> 2]
    /\ patterns[1].success_rate = [num |-> 2, den |-> 3]
    /\ patterns[1].usage_count = 3

\* C26: with concurrent callers, once every call has finished each pattern
\* has usage_count equal to the number of calls and success_rate equal to
\* the number of successful outcomes divided by it.
C26_NoLostOutcome ==
    (\A u \in Updaters : updater[u].pc \in {"idle", "returned"}) => StreamingMean

----------------------------------------------------------------------------
(***************************************************************************)
(* Claims about the end of a verified call                                 *)
(***************************************************************************)
\* C27: once the wrapped call has ended, by a return or by an error, no
\* Action Log row it created is pending or in_progress.
C27_RowsSettled ==
    \A c \in Callers :
       CallEnded(c) =>
          \A id \in call[c].rows :
             id \in DOMAIN action_log
                => action_log[id].status \notin {"pending", "in_progress"}

----------------------------------------------------------------------------
(***************************************************************************)
(* Claims about learn_from_decision                                        *)
(***************************************************************************)
\* The decision the last call of learn_from_decision was about has a row
\* with a reasoning that is neither NULL nor empty.
LearnReasoned ==
    /\ learn.decision_id \in DOMAIN learn.before
    /\ learn.before[learn.decision_id].reasoning \notin {Null, {""}}

\* The outcome recorded for that decision: update_decision_outcome stored
\* an outcome with this flag.
LearnRecorded(flag) ==
    /\ learn.before[learn.decision_id].outcome # Null
    /\ learn.before[learn.decision_id].success = {flag}

\* C30: learn_from_decision writes exactly one Knowledge row when the
\* decision exists with non-empty reasoning, a `Successful approach' fact at
\* 0.8 when the recorded outcome is success and an `Avoid' fact at 0.6 only
\* when the recorded outcome is failure; it writes nothing when the decision
\* does not exist or its reasoning is empty, and leaves the decisions as
\* they were.
C30_LearnOneFact ==
    learn.called =>
       /\ learn.after = learn.before
       /\ ~LearnReasoned => learn.written = << >>
       /\ LearnReasoned =>
             /\ Len(learn.written) = 1
             /\ LearnRecorded(1) =>
                   /\ learn.written[1].fact[1] = "Successful approach: "
                   /\ learn.written[1].confidence = Fraction(8, 10)
             /\ LearnRecorded(0) =>
                   /\ learn.written[1].fact[1] = "Avoid: "
                   /\ learn.written[1].confidence = Fraction(6, 10)
             /\ learn.written[1].fact[1] = "Avoid: " => LearnRecorded(0)

=============================================================================
